---- MODULE Spec2Model ----
(***************************************************************************)
(* ComplianceTrack: the local IndexedDB store (db.js), the handlers that   *)
(* write it (pipeline.js, jobs.js, candidates.js, clients.js, app.js,      *)
(* import-export.js) and the Kanban reorder protocol, as a state machine.  *)
(*                                                                         *)
(* Record ids are crypto.randomUUID() strings in the code; here they are   *)
(* small naturals, and the primary-key order of the store is their order.  *)
(* Timestamps are clock readings; the records of the board and of the      *)
(* pages carry none, the records the repository operations build do.       *)
(***************************************************************************)
EXTENDS Integers, Sequences, FiniteSets, TLC

VARIABLES
  candidates,   \* object store 'candidates': id -> record
  clients,      \* object store 'clients'
  jobs,         \* object store 'jobs'
  pipeline,     \* object store 'pipeline'
  activities,   \* object store 'activities'
  settings,     \* object store 'settings': key -> value
  now,          \* the clock that new Date() reads
  dbVersion,    \* the version of the database on disk (0: no database yet)
  objectStoreNames, \* the object stores the database on disk has
  searchCtrl,   \* the SearchController of the list page and its queries
  candCache,    \* candidates.js _listCache
  clientCache,  \* clients.js _listCache
  jobCache,     \* jobs.js _listCache
  board,        \* the Kanban DOM built by renderPipeline (or NoBoard)
  txq,          \* IndexedDB transactions on 'pipeline' created and not yet run
  op,           \* the multi-step handler in progress (or Idle)
  lastOp,       \* outcome of the handler step that ran last (toast / result)
  nextId,       \* next fresh record id
  drags,        \* number of drag-and-drop moves made so far
  race,         \* the reorders issued since the queue was last free of reorders
  undoToasts    \* the toasts on screen that carry an Undo button

storeVars == <<candidates, clients, jobs, pipeline, activities, settings>>
cacheVars == <<candCache, clientCache, jobCache>>
boardVars == <<board, txq, drags, race>>
dbVars == <<dbVersion, objectStoreNames>>
uiVars == <<searchCtrl, undoToasts>>
vars == <<candidates, clients, jobs, pipeline, activities, settings,
          candCache, clientCache, jobCache, board, txq, op, lastOp,
          nextId, drags, race, now, dbVersion, objectStoreNames, searchCtrl,
          undoToasts>>

-----------------------------------------------------------------------------
(* Bounds of the model *)

NCand == 2
MaxEntries == 2
MaxDrags == 2
MaxQueue == 2
MaxClients == 1
MaxJobs == 2
MaxActivities == 1
MaxRows == 2
MaxImportIds == 3
MaxClock == 2
MaxRecords == 2
ClockStep == 2500
FadeStep == 250
MaxToasts == 2

(* Program constants *)

CARDS_PER_COLUMN == 30
UNDO_DURATION == 10000
TOAST_FALLBACK == 500
DB_VERSION == 3

-----------------------------------------------------------------------------
(* Values *)

NULL == "null"
UNDEF == "undefined"
\* undefined among values that are numbers (a setting read from a file).
NoValue == -1
NoBoard == [job |-> 0, stages |-> <<>>, cols |-> <<>>]
Idle == [name |-> "idle"]
EmptyStore == [x \in {} |-> NULL]

\* A list page's _listCache: null, or the array a getAll returned.
NoCache == [loaded |-> FALSE, list |-> EmptyStore]

Cached(store) == [loaded |-> TRUE, list |-> store]

\* Stage lists a job form saves in this model (the form accepts any list).
StagesA == <<"Sourced", "Screen">>
StagesB == <<"Screen", "Offer">>
StageLists == {StagesA, StagesB}

\* app.js init stores certAlertDays = 60 when the setting is missing.
DefaultSettings == [k \in {"certAlertDays"} |-> 60]

\* The object stores that the upgrade step to version n creates.
StepStores(n) ==
  CASE n = 1 -> {"candidates", "settings"}
    [] n = 2 -> {"clients", "jobs", "pipeline"}
    [] n = 3 -> {"activities"}

\* The object stores of a database that was brought to version v.
StoresAt(v) == UNION {StepStores(n) : n \in 1..v}

\* new SearchController(onResults): no timer set, no searchFn running.  Each
\* running searchFn carries `later`: a search() or cancel() call was made
\* after the call that started it.
NewSearchController == [generation |-> 0, timeout |-> {}, running |-> {}]

Range(s) == {s[i] : i \in DOMAIN s}

Min(a, b) == IF a < b THEN a ELSE b

Remove(f, k) == [x \in DOMAIN f \ {k} |-> f[x]]

Put(f, k, v) == [x \in DOMAIN f \cup {k} |-> IF x = k THEN v ELSE f[x]]

RemoveAt(s, i) == [k \in 1..(Len(s) - 1) |-> IF k < i THEN s[k] ELSE s[k + 1]]

InsertAt(s, i, x) ==
  [k \in 1..(Len(s) + 1) |-> IF k < i THEN s[k] ELSE IF k = i THEN x ELSE s[k - 1]]

\* The ids of S as a sequence in primary-key order.
RECURSIVE KeyOrder(_)
KeyOrder(S) ==
  IF S = {} THEN <<>>
  ELSE LET m == CHOOSE x \in S : \A y \in S : x <= y
       IN <<m>> \o KeyOrder(S \ {m})

-----------------------------------------------------------------------------
(* db.js: validation and record construction *)

\* The records of the other collections; `data` stands for the fields no rule
\* of the store reads (contact fields, notes, ...).  An array field is "list",
\* "falsy" (undefined, null), "empty" (a falsy value that is present: '', 0,
\* false) or "nonlist" (any other value).
Candidate(d) ==
  [firstName |-> "Ann", lastName |-> "Lee", certifications |-> "list",
   skills |-> "list", data |-> d, externalId |-> 0]

Client(d) == [companyName |-> "Acme", contacts |-> "list", data |-> d]

\* The job's `stages` is always a list here (the form builds it by split).
Job(clientId, stages) ==
  [title |-> "Analyst", clientId |-> clientId, requiredCerts |-> "list",
   preferredCerts |-> "list", stages |-> stages]

Activity(candidateId) == [type |-> "note", candidateId |-> candidateId]

\* !x || !String(x).trim()
Blank(x) == x \in {"", " "}

\* x && !Array.isArray(x)
NotArray(x) == x = "nonlist"

\* validateCandidate / validateClient / validateJob / validateActivity: TRUE when
\* the record passes.
validateCandidate(data) ==
  /\ ~Blank(data.firstName) /\ ~Blank(data.lastName)
  /\ ~NotArray(data.certifications) /\ ~NotArray(data.skills)

validateClient(data) == ~Blank(data.companyName) /\ ~NotArray(data.contacts)

validateJob(data) ==
  /\ ~Blank(data.title)
  /\ ~NotArray(data.requiredCerts) /\ ~NotArray(data.preferredCerts)

ACTIVITY_TYPES == {"email", "call", "interview", "note", "submission"}

validateActivity(data) == data.type \in ACTIVITY_TYPES /\ data.candidateId # 0

\* data.f || [], for an array field.
ListOr(data, f) ==
  IF f \in DOMAIN data /\ data[f] \notin {"falsy", "empty"} THEN data[f] ELSE "list"

\* data.f || dflt, for a field whose falsy value is `falsy`.
OrElse(data, f, falsy, dflt) ==
  IF f \in DOMAIN data /\ data[f] # falsy THEN data[f] ELSE dflt

\* data.f ?? dflt
Nullish(data, f, dflt) == IF f \in DOMAIN data THEN data[f] ELSE dflt

\* createCandidate / createClient / createJob / createActivity without the id
\* and the timestamps: every known field, with its default.
createCandidate(data) ==
  [firstName |-> OrElse(data, "firstName", "", ""),
   lastName |-> OrElse(data, "lastName", "", ""),
   certifications |-> ListOr(data, "certifications"),
   skills |-> ListOr(data, "skills"),
   data |-> OrElse(data, "data", 0, 0),
   externalId |-> Nullish(data, "externalId", 0)]

createClient(data) ==
  [companyName |-> OrElse(data, "companyName", "", ""),
   contacts |-> ListOr(data, "contacts"),
   data |-> OrElse(data, "data", 0, 0)]

\* (A variant that never links the job to a client.)
createJobUnlinked(data) ==
  [title |-> OrElse(data, "title", "", ""),
   clientId |-> 0,
   requiredCerts |-> ListOr(data, "requiredCerts"),
   preferredCerts |-> ListOr(data, "preferredCerts"),
   stages |-> Nullish(data, "stages", StagesA)]

createJob(data) ==
  [title |-> OrElse(data, "title", "", ""),
   clientId |-> OrElse(data, "clientId", 0, 0),
   requiredCerts |-> ListOr(data, "requiredCerts"),
   preferredCerts |-> ListOr(data, "preferredCerts"),
   stages |-> Nullish(data, "stages", StagesA)]

createActivity(data) ==
  [type |-> OrElse(data, "type", "", "note"),
   candidateId |-> OrElse(data, "candidateId", 0, 0)]

\* (A variant whose updatedAt runs ahead of the clock.)
StampedAhead(rec, data, t) ==
  rec @@ [createdAt |-> OrElse(data, "createdAt", 0, t), updatedAt |-> t + 1]

\* createdAt: data.createdAt || now, updatedAt: now.
Stamped(rec, data, t) ==
  rec @@ [createdAt |-> OrElse(data, "createdAt", 0, t), updatedAt |-> t]

\* createActivity has createdAt only.
StampedCreated(rec, data, t) == rec @@ [createdAt |-> OrElse(data, "createdAt", 0, t)]

\* get: request.result, undefined when the key is not stored.
get(store, key) == IF key \in DOMAIN store THEN store[key] ELSE [undefined |-> TRUE]

\* getJobsByClient / getActivitiesByCandidate: index reads, in primary-key order.
getJobsByClient(store, clientId) ==
  KeyOrder({k \in DOMAIN store : store[k].clientId = clientId})

getActivitiesByCandidate(store, candidateId) ==
  KeyOrder({k \in DOMAIN store : store[k].candidateId = candidateId})

\* validatePipelineEntry: TRUE when the record passes (the code throws otherwise).
validatePipelineEntry(data) ==
  /\ data.candidateId # 0
  /\ data.jobId # 0
  /\ data.stage # ""

\* (A variant that ignores the stage it is given.)
createPipelineEntrySourced(candidateId, jobId, stage) ==
  [candidateId |-> candidateId,
   jobId |-> jobId,
   stage |-> "Sourced",
   position |-> 0,
   history |-> <<[stage |-> "Sourced", notes |-> "Added to pipeline"]>>]

\* createPipelineEntry: stage defaults to 'Sourced', position to 0, the history
\* to one element carrying the stage.
createPipelineEntry(candidateId, jobId, stage) ==
  LET st == IF stage = "" THEN "Sourced" ELSE stage
  IN [candidateId |-> candidateId,
      jobId |-> jobId,
      stage |-> st,
      position |-> 0,
      history |-> <<[stage |-> st, notes |-> "Added to pipeline"]>>]

\* (A variant for an index created without { unique: true }.)
CandidateJobNotUnique(store, id, rec) == FALSE

\* The unique index 'candidateJob' on ['candidateId', 'jobId']: a record stored
\* under another key with the same pair makes add/put fail (ConstraintError).
CandidateJobTaken(store, id, rec) ==
  \E k \in DOMAIN store :
    /\ k # id
    /\ store[k].candidateId = rec.candidateId
    /\ store[k].jobId = rec.jobId

\* IDBObjectStore.add on 'pipeline': the key must be new and the index unique.
PipelineAddOk(store, id, rec) ==
  /\ id \notin DOMAIN store
  /\ ~CandidateJobTaken(store, id, rec)

\* getPipelineByJob / getPipelineByCandidate: index reads, in primary-key order.
getPipelineByJob(store, jobId) ==
  KeyOrder({k \in DOMAIN store : store[k].jobId = jobId})

getPipelineByCandidate(store, candidateId) ==
  KeyOrder({k \in DOMAIN store : store[k].candidateId = candidateId})

-----------------------------------------------------------------------------
(* pipeline.js: renderPipeline *)

\* col.sort((a, b) => a.position - b.position): a stable sort of a list that is
\* in primary-key order, so ties in position stay in key order.
RECURSIVE SortByPosition(_, _)
SortByPosition(store, S) ==
  IF S = {} THEN <<>>
  ELSE LET m == CHOOSE x \in S : \A y \in S :
                  \/ store[x].position < store[y].position
                  \/ (store[x].position = store[y].position /\ x <= y)
       IN <<m>> \o SortByPosition(store, S \ {m})

\* The entries grouped under column k of the board: those whose stage names the
\* column, and under the first column also those whose stage is not in the list.
ColumnEntries(store, jobId, stages, k) ==
  {e \in DOMAIN store :
     /\ store[e].jobId = jobId
     /\ \/ store[e].stage = stages[k]
        \/ (k = 1 /\ store[e].stage \notin Range(stages))}

\* The cards of column k: the first CARDS_PER_COLUMN entries in position order;
\* renderCard yields no card for an entry whose candidate is not stored.
ColumnCards(store, cands, jobId, stages, k) ==
  LET sorted == SortByPosition(store, ColumnEntries(store, jobId, stages, k))
      visible == SubSeq(sorted, 1, Min(Len(sorted), CARDS_PER_COLUMN))
      HasCard(e) == store[e].candidateId \in DOMAIN cands
  IN SelectSeq(visible, HasCard)

renderPipeline(jobStore, store, cands, jobId) ==
  IF jobId \notin DOMAIN jobStore THEN NoBoard
  ELSE LET stages == jobStore[jobId].stages
       IN [job |-> jobId,
           stages |-> stages,
           cols |-> [k \in 1..Len(stages) |->
                       ColumnCards(store, cands, jobId, stages, k)]]

-----------------------------------------------------------------------------
(* pipeline.js handleDragEnd and db.js batchUpdatePipelinePositions *)

\* The board after SortableJS has moved card i of column a to index p of column b.
MoveCard(cols, a, i, b, p) ==
  LET card == cols[a][i]
      without == [cols EXCEPT ![a] = RemoveAt(cols[a], i)]
  IN [without EXCEPT ![b] = InsertAt(without[b], p, card)]

\* (A variant that gives every card of the column the stage.)
ColumnUpdatesStaged(cards, entryId, newStage) ==
  [i \in 1..Len(cards) |->
     [id |-> cards[i], position |-> i - 1, stage |-> newStage]]

\* One descriptor per card of a column, position = index in the DOM (from 0);
\* the dragged card also carries the stage and the history element.
ColumnUpdates(cards, entryId, newStage) ==
  [i \in 1..Len(cards) |->
     [id |-> cards[i],
      position |-> i - 1,
      stage |-> IF cards[i] = entryId THEN newStage ELSE UNDEF]]

\* handleDragEnd: the target column first, then the source column if different.
batchUpdates(cols, a, b, entryId, newStage) ==
  ColumnUpdates(cols[b], entryId, newStage)
    \o (IF a # b THEN ColumnUpdates(cols[a], entryId, newStage) ELSE <<>>)

\* batchUpdatePipelinePositions, the read transaction: the stored records of the
\* descriptors' ids; an id with no stored record is left out.
ReadEntries(store, updates) ==
  [id \in {updates[i].id : i \in DOMAIN updates} \cap DOMAIN store |-> store[id]]

\* One descriptor applied to a record in memory.
ApplyUpdate(entry, u) ==
  [entry EXCEPT
     !.position = u.position,
     !.stage = IF u.stage # UNDEF THEN u.stage ELSE @,
     !.history = IF u.stage # UNDEF
                 THEN Append(@, [stage |-> u.stage, notes |-> "Moved from previous stage"])
                 ELSE @]

\* The loop over the descriptors; a descriptor whose entry was not read is skipped.
RECURSIVE ApplyUpdates(_, _)
ApplyUpdates(entries, updates) ==
  IF updates = <<>> THEN entries
  ELSE LET u == Head(updates)
           next == IF u.id \in DOMAIN entries
                   THEN [entries EXCEPT ![u.id] = ApplyUpdate(entries[u.id], u)]
                   ELSE entries
       IN ApplyUpdates(next, Tail(updates))

\* The write transaction: store.put of every entry held in memory. A put that
\* breaks the unique index fails its request, which aborts the transaction.
RECURSIVE PutAll(_, _, _)
PutAll(store, entries, ids) ==
  IF ids = <<>> THEN [ok |-> TRUE, store |-> store]
  ELSE LET id == Head(ids)
       IN IF CandidateJobTaken(store, id, entries[id])
          THEN [ok |-> FALSE, store |-> store]
          ELSE PutAll(Put(store, id, entries[id]), entries, Tail(ids))

\* (A variant that puts each entry in a transaction of its own, so the puts made
\* before a failure stay.)
CommitWriteEach(store, entries, commits) ==
  LET ids == KeyOrder(DOMAIN entries)
      r == PutAll(store, entries, ids)
  IN IF commits /\ r.ok THEN [ok |-> TRUE, store |-> r.store]
     ELSE [ok |-> FALSE,
           store |-> IF ids = <<>> THEN store
                     ELSE Put(store, Head(ids), entries[Head(ids)])]

\* What the write transaction leaves in the store: all of the puts when it
\* commits, none of them when it aborts.
CommitWrite(store, entries, commits) ==
  LET r == PutAll(store, entries, KeyOrder(DOMAIN entries))
  IN IF commits /\ r.ok THEN [ok |-> TRUE, store |-> r.store]
     ELSE [ok |-> FALSE, store |-> store]

\* A whole reorder run without interruption: read, apply, write.
ApplyBatch(store, updates) ==
  CommitWrite(store, ApplyUpdates(ReadEntries(store, updates), updates), TRUE).store

-----------------------------------------------------------------------------
(* The transactions on 'pipeline' that have been created and have not run.   *)
(* IndexedDB runs transactions whose scopes overlap in the order they were   *)
(* created, except that read-only ones do not wait for one another.          *)

IsReadWrite(tx) == tx.kind \in {"write", "delete"}

IsReorder(tx) == tx.kind \in {"read", "write"}

CanRun(k) ==
  /\ k \in DOMAIN txq
  /\ IF IsReadWrite(txq[k]) THEN k = 1
     ELSE \A m \in 1..(k - 1) : ~IsReadWrite(txq[m])

ReorderPending == \E k \in DOMAIN txq : IsReorder(txq[k])

NoRace == [base |-> EmptyStore, batches |-> <<>>, clean |-> FALSE]

Dirty == [race EXCEPT !.clean = FALSE]

-----------------------------------------------------------------------------
(* Handlers of the Kanban board and of the pages that feed it *)

\* jobs.js showAddToPipelineModal, the click on a candidate row: addToPipeline
\* with the job's first stage; a ConstraintError is reported and nothing is stored.
AddToPipeline(c, j) ==
  /\ op = Idle /\ txq = <<>>
  /\ c \in DOMAIN candidates /\ j \in DOMAIN jobs
  /\ nextId.pipeline <= MaxEntries
  /\ LET id == nextId.pipeline
         entry == createPipelineEntry(c, j, Head(jobs[j].stages))
         ok == validatePipelineEntry(entry) /\ PipelineAddOk(pipeline, id, entry)
     IN /\ pipeline' = IF ok THEN Put(pipeline, id, entry) ELSE pipeline
        /\ nextId' = IF ok THEN [nextId EXCEPT !.pipeline = id + 1] ELSE nextId
        /\ lastOp' = [op |-> "addToPipeline", ok |-> ok,
                      candidateId |-> c, jobId |-> j]
  /\ board' = NoBoard
  /\ race' = NoRace
  /\ UNCHANGED <<dbVars, uiVars, now, candidates, clients, jobs, activities, settings, cacheVars,
                 txq, op, drags>>

\* Opening #/pipeline/<jobId>: renderPipeline builds the board from the store.
OpenPipeline(j) ==
  /\ op = Idle /\ txq = <<>>
  /\ j \in DOMAIN jobs
  /\ board' = renderPipeline(jobs, pipeline, candidates, j)
  /\ lastOp' = [op |-> "renderPipeline"]
  /\ race' = NoRace
  /\ UNCHANGED <<dbVars, uiVars, now, storeVars, cacheVars, txq, op, nextId, drags>>

\* handleDragEnd up to its await: SortableJS has moved the card (also when it
\* is dropped where it was), the descriptors are read off the DOM and the read
\* transaction of batchUpdatePipelinePositions is created.
handleDragEnd(a, i, b, p) ==
  /\ board # NoBoard
  /\ drags < MaxDrags /\ Len(txq) < MaxQueue
  /\ a \in DOMAIN board.cols /\ b \in DOMAIN board.cols
  /\ i \in DOMAIN board.cols[a]
  /\ p \in 1..(Len(board.cols[b]) + (IF a = b THEN 0 ELSE 1))
  /\ LET card == board.cols[a][i]
         cols == MoveCard(board.cols, a, i, b, p)
         updates == batchUpdates(cols, a, b, card, board.stages[b])
         toStored == {e \in DOMAIN pipeline :
                        /\ pipeline[e].jobId = board.job
                        /\ pipeline[e].stage = board.stages[b]}
         meta == [job |-> board.job, moved |-> card, index |-> p,
                  to |-> board.stages[b], from |-> board.stages[a],
                  pre |-> SortByPosition(pipeline, toStored \ {card}),
                  cards |-> updates]
     IN /\ board' = [board EXCEPT !.cols = cols]
        /\ txq' = Append(txq, [kind |-> "read", updates |-> updates, meta |-> meta])
        /\ race' = IF ReorderPending
                   THEN [race EXCEPT !.batches = Append(@, updates)]
                   ELSE [base |-> pipeline, batches |-> <<updates>>,
                         clean |-> txq = <<>>]
  /\ drags' = drags + 1
  /\ lastOp' = [op |-> "drag"]
  /\ UNCHANGED <<dbVars, uiVars, now, storeVars, cacheVars, op, nextId>>

\* batchUpdatePipelinePositions, first half: the read transaction completes, the
\* descriptors are applied in memory and the write transaction is created.
BatchRead(k) ==
  /\ CanRun(k) /\ txq[k].kind = "read"
  /\ LET tx == txq[k]
         entries == ApplyUpdates(ReadEntries(pipeline, tx.updates), tx.updates)
     IN txq' = Append(RemoveAt(txq, k),
                      [kind |-> "write", entries |-> entries, meta |-> tx.meta])
  /\ lastOp' = [op |-> "batchRead"]
  /\ UNCHANGED <<dbVars, uiVars, now, storeVars, cacheVars, board, op, nextId, drags, race>>

\* batchUpdatePipelinePositions, second half: the write transaction commits or
\* aborts (tx.onerror); handleDragEnd then updates the counts or shows a toast.
BatchWrite ==
  /\ CanRun(1) /\ txq[1].kind = "write"
  /\ \E commits \in BOOLEAN :
       LET tx == txq[1]
           r == CommitWrite(pipeline, tx.entries, commits)
       IN /\ pipeline' = r.store
          /\ lastOp' = [op |-> "reorder", ok |-> r.ok, meta |-> tx.meta]
          /\ race' = IF r.ok THEN race ELSE Dirty
  /\ txq' = Tail(txq)
  /\ UNCHANGED <<dbVars, uiVars, now, candidates, clients, jobs, activities, settings, cacheVars,
                 board, op, nextId, drags>>

\* The click on a card's remove button: removePipelineEntry creates the delete
\* transaction.
RemoveClick(a, i) ==
  /\ board # NoBoard
  /\ Len(txq) < MaxQueue
  /\ a \in DOMAIN board.cols /\ i \in DOMAIN board.cols[a]
  /\ txq' = Append(txq, [kind |-> "delete", id |-> board.cols[a][i],
                          job |-> board.job])
  /\ lastOp' = [op |-> "removeClick"]
  /\ UNCHANGED <<dbVars, uiVars, now, storeVars, cacheVars, board, op, nextId, drags, race>>

\* removePipelineEntry after deletePipelineEntry: the record is gone and
\* renderPipeline(jobId) starts, which reads the store again.
removePipelineEntry ==
  /\ CanRun(1) /\ txq[1].kind = "delete"
  /\ pipeline' = Remove(pipeline, txq[1].id)
  /\ txq' = Append(Tail(txq), [kind |-> "render", job |-> txq[1].job])
  /\ lastOp' = [op |-> "removePipelineEntry"]
  /\ race' = Dirty
  /\ UNCHANGED <<dbVars, uiVars, now, candidates, clients, jobs, activities, settings, cacheVars,
                 board, op, nextId, drags>>

\* renderPipeline after a removal: its reads complete and the board is rebuilt.
Rerender(k) ==
  /\ CanRun(k) /\ txq[k].kind = "render"
  /\ board' = renderPipeline(jobs, pipeline, candidates, txq[k].job)
  /\ txq' = RemoveAt(txq, k)
  /\ lastOp' = [op |-> "renderPipeline"]
  /\ UNCHANGED <<dbVars, uiVars, now, storeVars, cacheVars, op, nextId, drags, race>>

\* jobs.js renderJobForm, submit of an edited job with another stage list.
EditJobStages(j, stages) ==
  /\ op = Idle /\ txq = <<>>
  /\ j \in DOMAIN jobs
  /\ stages # jobs[j].stages
  /\ jobs' = [jobs EXCEPT ![j].stages = stages]
  /\ jobCache' = NoCache
  /\ board' = NoBoard
  /\ lastOp' = [op |-> "updateJob"]
  /\ race' = NoRace
  /\ UNCHANGED <<dbVars, uiVars, now, candidates, clients, pipeline, activities, settings,
                 candCache, clientCache, txq, op, nextId, drags>>

\* { ...candidate, certifications: [...(candidate.certifications || [])] }
\* without the certifications.
SnapshotBare(rec) == [rec EXCEPT !.certifications = "falsy"]

\* { ...candidate, certifications: [...(candidate.certifications || [])] }:
\* a copy of the record whose certifications are a list, empty when the
\* record has none.
Snapshot(rec) == [rec EXCEPT !.certifications = ListOr(rec, "certifications")]

\* ui.js toast(message, {duration: 10000, actionLabel: 'Undo', action}): the
\* element as appended to the container.  `age` is the time since then in
\* ms, `timer` the pending setTimeout(duration), `clicked` actionResult,
\* and `removeBy` the age at which the fallback of removeToast removes the
\* element (0 until removeToast is called).
toast(id, snapshot) ==
  [id |-> id, rec |-> snapshot, age |-> 0, timer |-> TRUE, clicked |-> FALSE,
   removeBy |-> 0]

\* ui.js removeToast: the element starts to leave; it is removed at the end
\* of its transition and at the latest TOAST_FALLBACK ms from now.
removeToast(t) ==
  [t EXCEPT !.removeBy = IF t.removeBy = 0 THEN t.age + TOAST_FALLBACK
                         ELSE Min(t.removeBy, t.age + TOAST_FALLBACK)]

\* candidates.js renderCandidateDetail, the delete handler: deleteCandidate and
\* nothing else is deleted; a toast with an Undo button keeps the snapshot.
DeleteCandidate(c) ==
  /\ op = Idle /\ txq = <<>>
  /\ c \in DOMAIN candidates
  /\ Cardinality(undoToasts) < MaxToasts
  /\ candidates' = Remove(candidates, c)
  /\ candCache' = NoCache
  /\ board' = NoBoard
  /\ undoToasts' = undoToasts \cup {toast(c, Snapshot(candidates[c]))}
  /\ lastOp' = [op |-> "deleteCandidate", ok |-> TRUE, id |-> c]
  /\ race' = NoRace
  /\ UNCHANGED <<dbVars, searchCtrl, now, clients, jobs, pipeline, activities, settings,
                 clientCache, jobCache, txq, op, nextId, drags>>


\* The Undo button of a toast that is on screen is clicked: actionResult is
\* set, the action puts the snapshot back, and the toast starts to leave.
Undo(t) ==
  /\ op = Idle /\ txq = <<>>
  /\ t \in undoToasts
  /\ candidates' = Put(candidates, t.id, t.rec)
  /\ candCache' = NoCache
  /\ board' = NoBoard
  /\ undoToasts' = (undoToasts \ {t}) \cup {removeToast([t EXCEPT !.clicked = TRUE])}
  /\ lastOp' = [op |-> "undo", ok |-> TRUE, id |-> t.id, rec |-> t.rec,
                age |-> t.age, timer |-> t.timer]
  /\ race' = NoRace
  /\ UNCHANGED <<dbVars, searchCtrl, now, clients, jobs, pipeline, activities, settings,
                 clientCache, jobCache, txq, op, nextId, drags>>

\* The setTimeout(duration) of a toast fires: removeToast unless the button
\* was clicked.
ToastTimeout(t) ==
  /\ t \in undoToasts
  /\ t.timer /\ t.age >= UNDO_DURATION
  /\ undoToasts' = (undoToasts \ {t}) \cup
                     {IF t.clicked THEN [t EXCEPT !.timer = FALSE]
                      ELSE removeToast([t EXCEPT !.timer = FALSE])}
  /\ lastOp' = [op |-> "toastTimeout"]
  /\ UNCHANGED <<dbVars, searchCtrl, now, storeVars, cacheVars, op, nextId, boardVars>>

\* el.remove(): at transitionend, or by the fallback timer of removeToast.
ToastRemoved(t) ==
  /\ t \in undoToasts
  /\ t.removeBy # 0
  /\ undoToasts' = undoToasts \ {t}
  /\ lastOp' = [op |-> "toastRemoved"]
  /\ UNCHANGED <<dbVars, searchCtrl, now, storeVars, cacheVars, op, nextId, boardVars>>

\* The time until a timer of toast t is due.
TimeLeft(t) ==
  IF t.removeBy # 0 THEN t.removeBy - t.age
  ELSE IF t.timer THEN UNDO_DURATION - t.age
  ELSE ClockStep

\* Time passes for the toasts on screen, as far as the next timer that is due
\* and at most one step of the clock (a shorter one while a toast leaves).
ToastTimePasses ==
  /\ undoToasts # {}
  /\ \A t \in undoToasts : TimeLeft(t) > 0
  /\ LET step == IF \E t \in undoToasts : t.removeBy # 0 THEN FadeStep ELSE ClockStep
         d == CHOOSE m \in {step} \cup {TimeLeft(t) : t \in undoToasts} :
                \A n \in {step} \cup {TimeLeft(t) : t \in undoToasts} : m <= n
     IN undoToasts' = {[t EXCEPT !.age = @ + d] : t \in undoToasts}
  /\ lastOp' = [op |-> "toastTime"]
  /\ UNCHANGED <<dbVars, searchCtrl, now, storeVars, cacheVars, op, nextId, boardVars>>

-----------------------------------------------------------------------------
(* Handlers of the candidate, client, job and outreach pages.  A handler of  *)
(* several transactions is one step per transaction; `op` holds the page or  *)
(* the handler that is under way.                                            *)

\* candidates.js renderCandidateForm, submit of a new candidate.
AddCandidate(d) ==
  /\ op = Idle /\ txq = <<>>
  /\ nextId.candidates <= NCand
  /\ validateCandidate(Candidate(d))
  /\ candidates' = Put(candidates, nextId.candidates, Candidate(d))
  /\ nextId' = [nextId EXCEPT !.candidates = @ + 1]
  /\ candCache' = NoCache
  /\ lastOp' = [op |-> "addCandidate"]
  /\ UNCHANGED <<dbVars, uiVars, now, clients, jobs, pipeline, activities, settings,
                 clientCache, jobCache, op, boardVars>>

\* clients.js renderClientForm, submit of a new client.
AddClient(d) ==
  /\ op = Idle /\ txq = <<>>
  /\ nextId.clients <= MaxClients
  /\ validateClient(Client(d))
  /\ clients' = Put(clients, nextId.clients, Client(d))
  /\ nextId' = [nextId EXCEPT !.clients = @ + 1]
  /\ clientCache' = NoCache
  /\ lastOp' = [op |-> "addClient"]
  /\ UNCHANGED <<dbVars, uiVars, now, candidates, jobs, pipeline, activities, settings,
                 candCache, jobCache, op, boardVars>>

\* jobs.js renderJobForm, submit of a new job for a listed client or for none.
AddJob(clientId) ==
  /\ op = Idle /\ txq = <<>>
  /\ nextId.jobs <= MaxJobs
  /\ clientId \in DOMAIN clients \cup {0}
  /\ validateJob(Job(clientId, StagesA))
  /\ jobs' = Put(jobs, nextId.jobs, Job(clientId, StagesA))
  /\ nextId' = [nextId EXCEPT !.jobs = @ + 1]
  /\ jobCache' = NoCache
  /\ lastOp' = [op |-> "addJob"]
  /\ UNCHANGED <<dbVars, uiVars, now, candidates, clients, pipeline, activities, settings,
                 candCache, clientCache, op, boardVars>>

\* outreach.js, the log-activity form: addActivity for a stored candidate.
AddActivity(c) ==
  /\ op = Idle /\ txq = <<>>
  /\ nextId.activities <= MaxActivities
  /\ c \in DOMAIN candidates
  /\ validateActivity(Activity(c))
  /\ activities' = Put(activities, nextId.activities, Activity(c))
  /\ nextId' = [nextId EXCEPT !.activities = @ + 1]
  /\ lastOp' = [op |-> "addActivity"]
  /\ UNCHANGED <<dbVars, uiVars, now, candidates, clients, jobs, pipeline, settings, cacheVars,
                 op, boardVars>>

\* (A variant that deletes the first entry only.)
deleteFirstByJob(store, entries) ==
  [x \in DOMAIN store \ (IF entries = <<>> THEN {} ELSE {Head(entries)}) |-> store[x]]

\* deletePipelineByJob, the delete transaction: every entry that the index read
\* returned is deleted.
deletePipelineByJob(store, entries) ==
  [x \in DOMAIN store \ Range(entries) |-> store[x]]

\* jobs.js renderJobDetail, the delete handler after the confirmation:
\* deletePipelineByJob starts with the read of the jobId index.
DeleteJobClick(j) ==
  /\ op = Idle /\ txq = <<>>
  /\ j \in DOMAIN jobs
  /\ op' = [name |-> "deleteJob", pc |-> "deletePipelineByJob", id |-> j,
            entries |-> getPipelineByJob(pipeline, j)]
  /\ lastOp' = [op |-> "deleteJobClick"]
  /\ UNCHANGED <<dbVars, uiVars, now, storeVars, cacheVars, nextId, boardVars>>

\* deletePipelineByJob, the delete transaction; when it fails the handler's
\* catch shows a toast and the job stays.
DeleteJobPipeline ==
  /\ op.name = "deleteJob" /\ op.pc = "deletePipelineByJob"
  /\ \E commits \in BOOLEAN :
       IF commits
       THEN /\ pipeline' = deletePipelineByJob(pipeline, op.entries)
            /\ op' = [op EXCEPT !.pc = "deleteJob"]
            /\ lastOp' = [op |-> "deletePipelineByJob"]
       ELSE /\ pipeline' = pipeline
            /\ op' = Idle
            /\ lastOp' = [op |-> "deleteJob", ok |-> FALSE, id |-> op.id,
                          removed |-> 0]
  /\ UNCHANGED <<dbVars, uiVars, now, candidates, clients, jobs, activities, settings, cacheVars,
                 nextId, boardVars>>

\* deleteJob, then the list cache is dropped; when deleteJob fails the catch
\* shows a toast and the cache stays.
DeleteJobRecord ==
  /\ op.name = "deleteJob" /\ op.pc = "deleteJob"
  /\ \E commits \in BOOLEAN :
       /\ jobs' = IF commits THEN Remove(jobs, op.id) ELSE jobs
       /\ jobCache' = IF commits THEN NoCache ELSE jobCache
       /\ lastOp' = [op |-> "deleteJob", ok |-> commits, id |-> op.id,
                     removed |-> Len(op.entries)]
  /\ op' = Idle
  /\ UNCHANGED <<dbVars, uiVars, now, candidates, clients, pipeline, activities, settings,
                 candCache, clientCache, nextId, boardVars>>

\* clients.js renderClientDetail: the page loads the client's jobs once.
OpenClientDetail(id) ==
  /\ op = Idle /\ txq = <<>>
  /\ id \in DOMAIN clients
  /\ op' = [name |-> "clientDetail", id |-> id,
            jobs |-> [k \in DOMAIN getJobsByClient(jobs, id) |->
                        [id |-> getJobsByClient(jobs, id)[k],
                         rec |-> jobs[getJobsByClient(jobs, id)[k]]]]]
  /\ lastOp' = [op |-> "renderClientDetail"]
  /\ UNCHANGED <<dbVars, uiVars, now, storeVars, cacheVars, nextId, boardVars>>

\* Leaving a detail page without deleting.
LeavePage ==
  /\ op.name = "clientDetail"
  /\ op' = Idle
  /\ lastOp' = [op |-> "navigate"]
  /\ UNCHANGED <<dbVars, uiVars, now, storeVars, cacheVars, nextId, boardVars>>

\* (A variant that leaves the job as it is.)
StillLinked(job) == job

\* j.clientId = '' of the delete handler.
Unlinked(job) == [job EXCEPT !.clientId = 0]

\* renderClientDetail, the delete handler after the confirmation.
DeleteClientClick ==
  /\ op.name = "clientDetail"
  /\ op' = [name |-> "deleteClient", id |-> op.id, jobs |-> op.jobs,
            jobIds |-> DOMAIN jobs, linked |-> Len(op.jobs)]
  /\ lastOp' = [op |-> "deleteClientClick"]
  /\ UNCHANGED <<dbVars, uiVars, now, storeVars, cacheVars, nextId, boardVars>>

\* One turn of the loop over the page's jobs: updateJob of the unlinked job,
\* or the failure of that transaction, which ends the handler in its catch.
DeleteClientUnlink ==
  /\ op.name = "deleteClient" /\ op.jobs # <<>>
  /\ \E commits \in BOOLEAN :
       LET j == Head(op.jobs)
           rec == Unlinked(j.rec)
           ok == validateJob(rec) /\ commits
       IN IF ok
          THEN /\ jobs' = Put(jobs, j.id, rec)
               /\ op' = [op EXCEPT !.jobs = Tail(@)]
               /\ lastOp' = [op |-> "updateJob"]
          ELSE /\ jobs' = jobs
               /\ op' = Idle
               /\ lastOp' = [op |-> "deleteClient", ok |-> FALSE, id |-> op.id,
                             jobIds |-> op.jobIds, linked |-> op.linked]
  /\ UNCHANGED <<dbVars, uiVars, now, candidates, clients, pipeline, activities, settings, cacheVars,
                 nextId, boardVars>>

\* deleteClient after the loop, then both list caches are dropped.
DeleteClientRecord ==
  /\ op.name = "deleteClient" /\ op.jobs = <<>>
  /\ \E commits \in BOOLEAN :
       /\ clients' = IF commits THEN Remove(clients, op.id) ELSE clients
       /\ clientCache' = IF commits THEN NoCache ELSE clientCache
       /\ jobCache' = IF commits THEN NoCache ELSE jobCache
       /\ lastOp' = [op |-> "deleteClient", ok |-> commits, id |-> op.id,
                     jobIds |-> op.jobIds, linked |-> op.linked]
  /\ op' = Idle
  /\ UNCHANGED <<dbVars, uiVars, now, candidates, jobs, pipeline, activities, settings, candCache,
                 nextId, boardVars>>

\* _listCache || await db.getAllX(): what a list page shows.
ListRead(cache, store) == IF cache.loaded THEN cache.list ELSE store

\* jobs.js renderJobList.
RenderJobList ==
  /\ op = Idle /\ txq = <<>>
  /\ jobCache' = Cached(ListRead(jobCache, jobs))
  /\ lastOp' = [op |-> "renderJobList", shown |-> ListRead(jobCache, jobs)]
  /\ UNCHANGED <<dbVars, uiVars, now, storeVars, candCache, clientCache, op, nextId, boardVars>>

\* clients.js renderClientList.
RenderClientList ==
  /\ op = Idle /\ txq = <<>>
  /\ clientCache' = Cached(ListRead(clientCache, clients))
  /\ lastOp' = [op |-> "renderClientList", shown |-> ListRead(clientCache, clients)]
  /\ UNCHANGED <<dbVars, uiVars, now, storeVars, candCache, jobCache, op, nextId, boardVars>>

\* app.js renderSettings, "Clear all data": the six stores are cleared.
ClearAll ==
  /\ op = Idle /\ txq = <<>>
  /\ candidates' = EmptyStore /\ clients' = EmptyStore /\ jobs' = EmptyStore
  /\ pipeline' = EmptyStore /\ activities' = EmptyStore /\ settings' = EmptyStore
  /\ lastOp' = [op |-> "clearAll"]
  /\ UNCHANGED <<dbVars, uiVars, now, cacheVars, op, nextId, boardVars>>

\* Reloading the page: the modules' variables start over and app.js init
\* stores the default certAlertDays when the setting is missing.
Reload ==
  /\ txq = <<>>
  /\ op' = Idle
  /\ candCache' = NoCache /\ clientCache' = NoCache /\ jobCache' = NoCache
  /\ settings' = IF "certAlertDays" \in DOMAIN settings THEN settings
                 ELSE Put(settings, "certAlertDays", 60)
  /\ undoToasts' = {}
  /\ lastOp' = [op |-> "init"]
  /\ UNCHANGED <<dbVars, searchCtrl, now, candidates, clients, jobs, pipeline, activities, nextId, boardVars>>

-----------------------------------------------------------------------------
(* import-export.js: handleJsonRestore *)

\* A backup file: its version (0 when the field is absent) and one array of
\* [id, rec] per collection; settings are [key, value].
Backup(version, cands, cls, js, ps, acts, sets) ==
  [version |-> version, candidates |-> cands, clients |-> cls, jobs |-> js,
   pipeline |-> ps, activities |-> acts, settings |-> sets]

\* Taken when record 1 of every collection had other contents and
\* certAlertDays was 30.
BackupOld ==
  Backup(3,
         <<[id |-> 1, rec |-> Candidate(9)]>>,
         <<[id |-> 1, rec |-> Client(9)]>>,
         <<[id |-> 1, rec |-> Job(0, StagesB)]>>,
         <<[id |-> 1, rec |-> createPipelineEntry(1, 1, "Offer")]>>,
         <<[id |-> 1, rec |-> Activity(1)]>>,
         <<[key |-> "certAlertDays", value |-> 30], [key |-> "theme", value |-> 1],
           [key |-> "customCertTypes", value |-> NoValue]>>)

\* Written by another installation, without a version: its ids are new, one job
\* has no title, and its pipeline entry joins candidate 1 and job 1.
BackupOther ==
  Backup(0,
         <<>>,
         <<>>,
         <<[id |-> 11, rec |-> Job(0, StagesA)],
           [id |-> 12, rec |-> [Job(0, StagesA) EXCEPT !.title = ""]]>>,
         <<[id |-> 11, rec |-> createPipelineEntry(1, 1, "Sourced")]>>,
         <<>>,
         <<>>)

\* From a newer schema version.
BackupNewer == Backup(DB_VERSION + 1, <<>>, <<>>, <<>>, <<>>, <<>>, <<>>)

\* With a person who has no first name, and a job.
BackupBad ==
  Backup(3, <<[id |-> 11, rec |-> [Candidate(9) EXCEPT !.firstName = ""]]>>,
         <<>>, <<[id |-> 11, rec |-> Job(0, StagesA)]>>, <<>>, <<>>, <<>>)

Backups == {BackupOld, BackupOther, BackupNewer, BackupBad}

\* (The whitelist without the alert threshold.)
SETTINGS_WHITELIST_SHORT == {"customCertTypes", "emailTemplates"}

SETTINGS_WHITELIST == {"certAlertDays", "customCertTypes", "emailTemplates"}

\* The validator that handleJsonRestore applies to an array's records; people
\* are validated later, by addCandidatesBatch.
ValidRecord(storeName, rec) ==
  CASE storeName = "clients" -> validateClient(rec)
    [] storeName = "jobs" -> validateJob(rec)
    [] storeName = "pipeline" -> validatePipelineEntry(rec)
    [] storeName = "activities" -> validateActivity(rec)
    [] OTHER -> TRUE

\* The records of a backup array that are imported: id present, not stored, valid.
ToImport(storeName, store, items) ==
  LET Keep(x) == x.id # 0 /\ x.id \notin DOMAIN store /\ ValidRecord(storeName, x.rec)
  IN SelectSeq(items, Keep)

\* The people of a backup that are counted as skipped.
Skipped(store, items) ==
  LET Known(x) == x.id \in DOMAIN store IN Len(SelectSeq(items, Known))

RECURSIVE PutItems(_, _, _)
PutItems(store, items, unique) ==
  IF items = <<>> THEN [ok |-> TRUE, store |-> store]
  ELSE LET it == Head(items)
       IN IF unique /\ CandidateJobTaken(store, it.id, it.rec)
          THEN [ok |-> FALSE, store |-> store]
          ELSE PutItems(Put(store, it.id, it.rec), Tail(items), unique)

\* batchPut: one transaction of store.put per item; `unique` says whether the
\* store has the candidateJob index.  An aborted transaction stores nothing.
batchPut(store, items, unique) ==
  LET r == PutItems(store, items, unique)
  IN IF r.ok THEN r ELSE [ok |-> FALSE, store |-> store]

\* The loop over data.settings: db.put of every whitelisted key with a value.
RECURSIVE RestoreSettings(_, _)
RestoreSettings(store, items) ==
  IF items = <<>> THEN store
  ELSE LET st == Head(items)
       IN RestoreSettings(IF st.key \in SETTINGS_WHITELIST /\ st.value # NoValue
                          THEN Put(store, st.key, st.value) ELSE store,
                          Tail(items))

\* The checks before the confirmation: version, then the shape of every person.
RestoreAccepts(data) ==
  /\ ~(data.version # 0 /\ data.version > DB_VERSION)
  /\ \A i \in DOMAIN data.candidates :
       LET c == data.candidates[i]
       IN c.id # 0 /\ c.rec.firstName # "" /\ c.rec.lastName # ""

\* What handleJsonRestore leaves in the six stores `st` for file `data`:
\* `stage` is "rejected" (a check before the confirmation failed or
\* addCandidatesBatch threw), "failed" (the pipeline batch aborted) or "done".
RestoreOutcome(st, data) ==
  LET people == ToImport("candidates", st.candidates, data.candidates)
      peopleOk == \A i \in DOMAIN people : validateCandidate(people[i].rec)
      rc == batchPut(st.candidates, people, FALSE)
      rl == batchPut(st.clients, ToImport("clients", st.clients, data.clients), FALSE)
      rj == batchPut(st.jobs, ToImport("jobs", st.jobs, data.jobs), FALSE)
      rp == batchPut(st.pipeline, ToImport("pipeline", st.pipeline, data.pipeline), TRUE)
      ra == batchPut(st.activities,
                     ToImport("activities", st.activities, data.activities), FALSE)
  IN IF ~RestoreAccepts(data) \/ ~peopleOk
     THEN [stage |-> "rejected", candidates |-> st.candidates,
           clients |-> st.clients, jobs |-> st.jobs, pipeline |-> st.pipeline,
           activities |-> st.activities, settings |-> st.settings]
     ELSE IF ~rp.ok
     THEN [stage |-> "failed", candidates |-> rc.store, clients |-> rl.store,
           jobs |-> rj.store, pipeline |-> rp.store,
           activities |-> st.activities, settings |-> st.settings]
     ELSE [stage |-> "done", candidates |-> rc.store, clients |-> rl.store,
           jobs |-> rj.store, pipeline |-> rp.store, activities |-> ra.store,
           settings |-> RestoreSettings(st.settings, data.settings)]

\* The six stores as they are.
Stores ==
  [candidates |-> candidates, clients |-> clients, jobs |-> jobs,
   pipeline |-> pipeline, activities |-> activities, settings |-> settings]

\* handleJsonRestore from the file to the toast.
Restore(data) ==
  /\ op = Idle /\ txq = <<>>
  /\ LET r == RestoreOutcome(Stores, data)
     IN /\ candidates' = r.candidates /\ clients' = r.clients /\ jobs' = r.jobs
        /\ pipeline' = r.pipeline /\ activities' = r.activities
        /\ settings' = r.settings
        /\ IF r.stage = "done"
           THEN candCache' = NoCache /\ clientCache' = NoCache /\ jobCache' = NoCache
           ELSE UNCHANGED cacheVars
        /\ lastOp' = [op |-> "restore", ok |-> r.stage = "done", file |-> data,
                      skipped |-> IF r.stage = "rejected" THEN 0
                                  ELSE Skipped(candidates, data.candidates)]
  /\ UNCHANGED <<dbVars, uiVars, now, op, nextId, boardVars>>

\* getAll of a store as the array of a backup file, in key order.
ExportItems(store) ==
  [i \in 1..Cardinality(DOMAIN store) |->
     [id |-> KeyOrder(DOMAIN store)[i], rec |-> store[KeyOrder(DOMAIN store)[i]]]]

\* getAll('settings'): the {key, value} records, in some order of the keys.
RECURSIVE ExportSettings(_, _)
ExportSettings(store, keys) ==
  IF keys = {} THEN <<>>
  ELSE LET k == CHOOSE x \in keys : TRUE
       IN <<[key |-> k, value |-> store[k]]>> \o ExportSettings(store, keys \ {k})

\* exportAll: the six stores under the current schema version.
exportAll(st) ==
  Backup(DB_VERSION, ExportItems(st.candidates), ExportItems(st.clients),
         ExportItems(st.jobs), ExportItems(st.pipeline),
         ExportItems(st.activities),
         ExportSettings(st.settings, DOMAIN st.settings))

\* A database with nothing in its six stores.
EmptyStores ==
  [candidates |-> EmptyStore, clients |-> EmptyStore, jobs |-> EmptyStore,
   pipeline |-> EmptyStore, activities |-> EmptyStore, settings |-> EmptyStore]

-----------------------------------------------------------------------------
(* The pages other than the board, from an empty database.                   *)

InitData ==
  /\ candidates = EmptyStore /\ clients = EmptyStore /\ jobs = EmptyStore
  /\ pipeline = EmptyStore /\ activities = EmptyStore
  /\ settings = DefaultSettings
  /\ candCache = NoCache /\ clientCache = NoCache /\ jobCache = NoCache
  /\ board = NoBoard
  /\ txq = <<>>
  /\ op = Idle
  /\ lastOp = [op |-> "init"]
  /\ nextId = [candidates |-> 1, clients |-> 1, jobs |-> 1,
               pipeline |-> 1, activities |-> 1]
  /\ drags = 0
  /\ race = NoRace
  /\ now = 1
  /\ dbVersion = DB_VERSION /\ objectStoreNames = StoresAt(DB_VERSION)
  /\ searchCtrl = NewSearchController
  /\ undoToasts = {}

NextData ==
  \/ \E d \in {0} : AddCandidate(d)
  \/ \E c \in DOMAIN candidates : DeleteCandidate(c)
  \/ \E d \in {0} : AddClient(d)
  \/ \E cl \in DOMAIN clients \cup {0} : AddJob(cl)
  \/ \E c \in DOMAIN candidates, j \in DOMAIN jobs : AddToPipeline(c, j)
  \/ \E c \in DOMAIN candidates : AddActivity(c)
  \/ \E j \in DOMAIN jobs : DeleteJobClick(j)
  \/ DeleteJobPipeline
  \/ DeleteJobRecord
  \/ \E cl \in DOMAIN clients : OpenClientDetail(cl)
  \/ LeavePage
  \/ DeleteClientClick
  \/ DeleteClientUnlink
  \/ DeleteClientRecord
  \/ RenderJobList
  \/ RenderClientList
  \/ ClearAll
  \/ Reload

SpecData == InitData /\ [][NextData]_vars

\* The same pages when backups are restored.
NextRestore ==
  \/ \E d \in {0} : AddCandidate(d)
  \/ \E d \in {0} : AddClient(d)
  \/ \E cl \in DOMAIN clients \cup {0} : AddJob(cl)
  \/ \E c \in DOMAIN candidates, j \in DOMAIN jobs : AddToPipeline(c, j)
  \/ \E c \in DOMAIN candidates : AddActivity(c)
  \/ ClearAll
  \/ Reload
  \/ \E data \in Backups : Restore(data)

SpecRestore == InitData /\ [][NextRestore]_vars

\* From an installation whose person 12 was stored without certifications.
BackupBare ==
  Backup(3, <<[id |-> 11, rec |-> Candidate(0)],
              [id |-> 12, rec |-> [Candidate(0) EXCEPT !.certifications = "falsy"]]>>,
         <<>>, <<>>, <<>>, <<>>, <<>>)

\* The candidate pages when people are deleted and the deletion is undone.
NextUndo ==
  \/ \E data \in {BackupBare} : Restore(data)
  \/ \E c \in DOMAIN candidates : DeleteCandidate(c)
  \/ \E t \in undoToasts : Undo(t)
  \/ \E t \in undoToasts : ToastTimeout(t)
  \/ \E t \in undoToasts : ToastRemoved(t)
  \/ ToastTimePasses
  \/ Reload

SpecUndo == InitData /\ [][NextUndo]_vars

-----------------------------------------------------------------------------
(* import-export.js: the CSV import of people *)

\* A transformed CSV row; an empty cell is "" or 0.  Matching by email is
\* left out: the rows carry no email.
Row(externalId, firstName, d) ==
  [externalId |-> externalId, firstName |-> firstName, lastName |-> "Lee",
   data |-> d]

RowX1 == Row(7, "Ann", 5)
RowX1b == Row(7, "Bea", 0)
RowBad == Row(0, "", 5)

CsvRows == {RowX1, RowX1b, RowBad}

CsvFiles == UNION {[1..n -> CsvRows] : n \in 1..MaxRows}

\* renderPreviewStep, duplicate detection: extIdMap keeps the last stored
\* candidate with the row's externalId; 0 when there is no match.
MatchExisting(store, row) ==
  LET same == {k \in DOMAIN store : store[k].externalId = row.externalId}
  IN IF row.externalId # 0 /\ same # {}
     THEN CHOOSE k \in same : \A x \in same : x <= k
     ELSE 0

\* executeImport, action 'update': the non-empty values of the row go into
\* the existing record.
MergeRow(existing, row) ==
  [existing EXCEPT
     !.firstName = IF row.firstName # "" THEN row.firstName ELSE @,
     !.lastName = IF row.lastName # "" THEN row.lastName ELSE @,
     !.data = IF row.data # 0 THEN row.data ELSE @,
     !.externalId = IF row.externalId # 0 THEN row.externalId ELSE @]

\* executeImport, the loop over the rows of a batch: what is skipped, what
\* goes to toUpdate (the in-memory records are shared) and what to toCreate.
RECURSIVE CollectBatch(_, _)
CollectBatch(rows, acc) ==
  IF rows = <<>> THEN acc
  ELSE LET r == Head(rows)
       IN CollectBatch(Tail(rows),
            IF r.existingId # 0 /\ r.action = "skip"
            THEN [acc EXCEPT !.skipped = @ + 1]
            ELSE IF r.existingId # 0 /\ r.action = "update"
                    /\ r.existingId \in DOMAIN acc.mem
            THEN LET rec == MergeRow(acc.mem[r.existingId], r.row)
                 IN [acc EXCEPT !.mem = Put(@, r.existingId, rec),
                                !.toUpdate = Append(@, r.existingId)]
            ELSE [acc EXCEPT !.toCreate = Append(@, createCandidate(r.row))])

\* addCandidatesBatch: every record is validated before the transaction is
\* opened; one failure throws and nothing is written.
addCandidatesBatch(store, items) ==
  IF \A i \in DOMAIN items : validateCandidate(items[i].rec)
  THEN batchPut(store, items, FALSE)
  ELSE [ok |-> FALSE, store |-> store]

\* renderPreviewStep: the rows are matched and every duplicate starts as 'skip'.
ImportPreview(file) ==
  /\ op = Idle /\ txq = <<>>
  /\ nextId.candidates + Len(file) - 1 <= MaxImportIds
  /\ op' = [name |-> "import",
            rows |-> [i \in DOMAIN file |->
                        [row |-> file[i],
                         existingId |-> MatchExisting(candidates, file[i]),
                         action |-> "skip"]]]
  /\ lastOp' = [op |-> "importPreview"]
  /\ UNCHANGED <<dbVars, uiVars, now, storeVars, cacheVars, nextId, boardVars>>

\* The select of a duplicate: skip, update or new.
SetDupAction(i, a) ==
  /\ op.name = "import"
  /\ i \in DOMAIN op.rows /\ op.rows[i].existingId # 0
  /\ a \in {"skip", "update", "new"} /\ a # op.rows[i].action
  /\ op' = [op EXCEPT !.rows[i].action = a]
  /\ lastOp' = [op |-> "dupAction"]
  /\ UNCHANGED <<dbVars, uiVars, now, storeVars, cacheVars, nextId, boardVars>>

\* "Cancel" or leaving the import page.
CancelImport ==
  /\ op.name = "import"
  /\ op' = Idle
  /\ lastOp' = [op |-> "navigate"]
  /\ UNCHANGED <<dbVars, uiVars, now, storeVars, cacheVars, nextId, boardVars>>

\* executeImport for a file of one batch: the creates are written in one
\* transaction, then the updates in another, and the tally is shown.
ExecuteImport ==
  /\ op.name = "import"
  /\ LET acc == CollectBatch(op.rows, [mem |-> candidates, toCreate |-> <<>>,
                                        toUpdate |-> <<>>, skipped |-> 0])
         creates == [i \in DOMAIN acc.toCreate |->
                       [id |-> nextId.candidates + i - 1, rec |-> acc.toCreate[i]]]
         updates == [i \in DOMAIN acc.toUpdate |->
                       [id |-> acc.toUpdate[i], rec |-> acc.mem[acc.toUpdate[i]]]]
         rc == addCandidatesBatch(candidates, creates)
         ru == addCandidatesBatch(rc.store, updates)
     IN /\ candidates' = ru.store
        /\ nextId' = [nextId EXCEPT !.candidates = @ + Len(creates)]
        /\ lastOp' = [op |-> "import", rows |-> op.rows,
                      created |-> IF rc.ok THEN Len(creates) ELSE 0,
                      updated |-> IF ru.ok THEN Len(updates) ELSE 0,
                      skipped |-> acc.skipped,
                      errors |-> (IF rc.ok THEN 0 ELSE Len(creates))
                                 + (IF ru.ok THEN 0 ELSE Len(updates))]
  /\ candCache' = NoCache
  /\ op' = Idle
  /\ UNCHANGED <<dbVars, uiVars, now, clients, jobs, pipeline, activities, settings,
                 clientCache, jobCache, boardVars>>

NextImport ==
  \/ \E d \in {0} : AddCandidate(d)
  \/ \E c \in DOMAIN candidates : DeleteCandidate(c)
  \/ \E file \in CsvFiles : ImportPreview(file)
  \/ \E i \in 1..MaxRows, a \in {"skip", "update", "new"} : SetDupAction(i, a)
  \/ CancelImport
  \/ ExecuteImport

SpecImport == InitData /\ [][NextImport]_vars

-----------------------------------------------------------------------------
(* db.js: the add/update operations, called with any argument *)

\* An optional field of an argument: left out, or present with one of `values`.
Opt(f, values) == {EmptyStore} \cup {[x \in {f} |-> v] : v \in values}

CandidateInputs ==
  {[firstName |-> f, lastName |-> l] @@ c @@ t :
     f \in {"Ann", ""}, l \in {"Lee", " "},
     c \in Opt("certifications", {"list", "nonlist"}), t \in Opt("createdAt", {1})}

ClientInputs ==
  {n @@ c : n \in Opt("companyName", {"Acme", " "}),
            c \in Opt("contacts", {"list", "nonlist"})}

JobInputs ==
  {[title |-> t] @@ c @@ r @@ st :
     t \in {"Analyst", ""}, c \in Opt("clientId", {1}),
     r \in Opt("requiredCerts", {"nonlist"}), st \in Opt("stages", {StagesB})}

PipelineInputs ==
  {c @@ j @@ st @@ ps :
     c \in Opt("candidateId", {1, 2}), j \in Opt("jobId", {1}),
     st \in Opt("stage", {"Screen", ""}), ps \in Opt("position", {3})}

ActivityInputs ==
  {t @@ c : t \in Opt("type", {"call", "memo", ""}), c \in Opt("candidateId", {1})}

\* What a caller of an update passes: a stored record with some fields changed.
NameEdits == {"Ann", "Bea", " "}
ShapeEdits == {"list", "falsy", "empty", "nonlist"}

\* The records stored in the five collections.
RecordCount ==
  Cardinality(DOMAIN candidates) + Cardinality(DOMAIN clients)
    + Cardinality(DOMAIN jobs) + Cardinality(DOMAIN pipeline)
    + Cardinality(DOMAIN activities)

\* The clock advances.
Tick ==
  /\ now < MaxClock
  /\ now' = now + 1
  /\ lastOp' = [op |-> "tick"]
  /\ UNCHANGED <<dbVars, uiVars, storeVars, cacheVars, op, nextId, boardVars>>

addCandidate(data) ==
  /\ nextId.candidates <= NCand /\ RecordCount < MaxRecords
  /\ LET id == nextId.candidates
         rec == Stamped(createCandidate(data), data, now)
         ok == validateCandidate(rec)
     IN /\ candidates' = IF ok THEN Put(candidates, id, rec) ELSE candidates
        /\ nextId' = IF ok THEN [nextId EXCEPT !.candidates = id + 1] ELSE nextId
        /\ lastOp' = [op |-> "add", store |-> "candidates", ok |-> ok,
                      id |-> id, input |-> data]
  /\ UNCHANGED <<dbVars, uiVars, now, clients, jobs, pipeline, activities, settings, cacheVars,
                 op, boardVars>>

updateCandidate(id, name, shape) ==
  /\ id \in DOMAIN candidates
  /\ LET arg == [candidates[id] EXCEPT !.firstName = name, !.skills = shape]
         ok == validateCandidate(arg)
         rec == [arg EXCEPT !.updatedAt = now]
     IN /\ candidates' = IF ok THEN Put(candidates, id, rec) ELSE candidates
        /\ lastOp' = [op |-> "update", store |-> "candidates", ok |-> ok,
                      id |-> id, input |-> arg]
  /\ UNCHANGED <<dbVars, uiVars, now, clients, jobs, pipeline, activities, settings, cacheVars,
                 op, nextId, boardVars>>

addClient(data) ==
  /\ nextId.clients <= MaxClients /\ RecordCount < MaxRecords
  /\ LET id == nextId.clients
         rec == Stamped(createClient(data), data, now)
         ok == validateClient(rec)
     IN /\ clients' = IF ok THEN Put(clients, id, rec) ELSE clients
        /\ nextId' = IF ok THEN [nextId EXCEPT !.clients = id + 1] ELSE nextId
        /\ lastOp' = [op |-> "add", store |-> "clients", ok |-> ok,
                      id |-> id, input |-> data]
  /\ UNCHANGED <<dbVars, uiVars, now, candidates, jobs, pipeline, activities, settings, cacheVars,
                 op, boardVars>>

updateClient(id, name, shape) ==
  /\ id \in DOMAIN clients
  /\ LET arg == [clients[id] EXCEPT !.companyName = name, !.contacts = shape]
         ok == validateClient(arg)
         rec == [arg EXCEPT !.updatedAt = now]
     IN /\ clients' = IF ok THEN Put(clients, id, rec) ELSE clients
        /\ lastOp' = [op |-> "update", store |-> "clients", ok |-> ok,
                      id |-> id, input |-> arg]
  /\ UNCHANGED <<dbVars, uiVars, now, candidates, jobs, pipeline, activities, settings, cacheVars,
                 op, nextId, boardVars>>

addJob(data) ==
  /\ nextId.jobs <= MaxJobs /\ RecordCount < MaxRecords
  /\ LET id == nextId.jobs
         rec == Stamped(createJob(data), data, now)
         ok == validateJob(rec)
     IN /\ jobs' = IF ok THEN Put(jobs, id, rec) ELSE jobs
        /\ nextId' = IF ok THEN [nextId EXCEPT !.jobs = id + 1] ELSE nextId
        /\ lastOp' = [op |-> "add", store |-> "jobs", ok |-> ok,
                      id |-> id, input |-> data]
  /\ UNCHANGED <<dbVars, uiVars, now, candidates, clients, pipeline, activities, settings,
                 cacheVars, op, boardVars>>

updateJob(id, name, shape) ==
  /\ id \in DOMAIN jobs
  /\ LET arg == [jobs[id] EXCEPT !.title = name, !.preferredCerts = shape]
         ok == validateJob(arg)
         rec == [arg EXCEPT !.updatedAt = now]
     IN /\ jobs' = IF ok THEN Put(jobs, id, rec) ELSE jobs
        /\ lastOp' = [op |-> "update", store |-> "jobs", ok |-> ok,
                      id |-> id, input |-> arg]
  /\ UNCHANGED <<dbVars, uiVars, now, candidates, clients, pipeline, activities, settings,
                 cacheVars, op, nextId, boardVars>>

addToPipeline(data) ==
  /\ nextId.pipeline <= MaxEntries /\ RecordCount < MaxRecords
  /\ LET id == nextId.pipeline
         made == createPipelineEntry(OrElse(data, "candidateId", 0, 0),
                                     OrElse(data, "jobId", 0, 0),
                                     OrElse(data, "stage", "", ""))
         rec == Stamped([made EXCEPT !.position = Nullish(data, "position", 0)],
                        data, now)
         ok == validatePipelineEntry(rec) /\ PipelineAddOk(pipeline, id, rec)
     IN /\ pipeline' = IF ok THEN Put(pipeline, id, rec) ELSE pipeline
        /\ nextId' = IF ok THEN [nextId EXCEPT !.pipeline = id + 1] ELSE nextId
        /\ lastOp' = [op |-> "add", store |-> "pipeline", ok |-> ok,
                      id |-> id, input |-> data]
  /\ UNCHANGED <<dbVars, uiVars, now, candidates, clients, jobs, activities, settings, cacheVars,
                 op, boardVars>>

updatePipelineEntry(id, stage, candidateId) ==
  /\ id \in DOMAIN pipeline
  /\ LET arg == [pipeline[id] EXCEPT !.stage = stage, !.candidateId = candidateId]
         ok == validatePipelineEntry(arg) /\ ~CandidateJobTaken(pipeline, id, arg)
         rec == [arg EXCEPT !.updatedAt = now]
     IN /\ pipeline' = IF ok THEN Put(pipeline, id, rec) ELSE pipeline
        /\ lastOp' = [op |-> "update", store |-> "pipeline", ok |-> ok,
                      id |-> id, input |-> arg]
  /\ UNCHANGED <<dbVars, uiVars, now, candidates, clients, jobs, activities, settings, cacheVars,
                 op, nextId, boardVars>>

addActivity(data) ==
  /\ nextId.activities <= MaxActivities /\ RecordCount < MaxRecords
  /\ LET id == nextId.activities
         rec == StampedCreated(createActivity(data), data, now)
         ok == validateActivity(rec)
     IN /\ activities' = IF ok THEN Put(activities, id, rec) ELSE activities
        /\ nextId' = IF ok THEN [nextId EXCEPT !.activities = id + 1] ELSE nextId
        /\ lastOp' = [op |-> "add", store |-> "activities", ok |-> ok,
                      id |-> id, input |-> data]
  /\ UNCHANGED <<dbVars, uiVars, now, candidates, clients, jobs, pipeline, settings, cacheVars,
                 op, boardVars>>

updateActivity(id, type, candidateId) ==
  /\ id \in DOMAIN activities
  /\ LET arg == [activities[id] EXCEPT !.type = type, !.candidateId = candidateId]
         ok == validateActivity(arg)
     IN /\ activities' = IF ok THEN Put(activities, id, arg) ELSE activities
        /\ lastOp' = [op |-> "update", store |-> "activities", ok |-> ok,
                      id |-> id, input |-> arg]
  /\ UNCHANGED <<dbVars, uiVars, now, candidates, clients, jobs, pipeline, settings, cacheVars,
                 op, nextId, boardVars>>

NextRepo ==
  \/ Tick
  \/ \E data \in CandidateInputs : addCandidate(data)
  \/ \E id \in DOMAIN candidates, n \in NameEdits, a \in ShapeEdits :
       updateCandidate(id, n, a)
  \/ \E data \in ClientInputs : addClient(data)
  \/ \E id \in DOMAIN clients, n \in NameEdits, a \in ShapeEdits :
       updateClient(id, n, a)
  \/ \E data \in JobInputs : addJob(data)
  \/ \E id \in DOMAIN jobs, n \in NameEdits, a \in ShapeEdits : updateJob(id, n, a)
  \/ \E data \in PipelineInputs : addToPipeline(data)
  \/ \E id \in DOMAIN pipeline, st \in {"Screen", "Offer", ""}, c \in 0..2 :
       updatePipelineEntry(id, st, c)
  \/ \E data \in ActivityInputs : addActivity(data)
  \/ \E id \in DOMAIN activities, t \in {"call", "memo"}, c \in 0..1 :
       updateActivity(id, t, c)

SpecRepo == InitData /\ [][NextRepo]_vars

-----------------------------------------------------------------------------
(* db.js init(): opening the database at DB_VERSION *)

MaxStored == 1

\* What a collection of a database on disk may hold.
StoredBefore(storeName, names) ==
  IF storeName \notin names THEN {EmptyStore}
  ELSE {EmptyStore} \cup
       {[id \in 1..MaxStored |->
           CASE storeName = "candidates" -> Candidate(0)
             [] storeName = "clients" -> Client(0)
             [] storeName = "jobs" -> Job(0, StagesA)
             [] storeName = "pipeline" -> createPipelineEntry(1, 1, "Sourced")
             [] storeName = "activities" -> Activity(1)]}

\* A database on disk at any version up to DB_VERSION, with the stores of
\* that version and some records in them.
InitUpgrade ==
  /\ dbVersion \in 0..DB_VERSION
  /\ objectStoreNames = StoresAt(dbVersion)
  /\ candidates \in StoredBefore("candidates", objectStoreNames)
  /\ clients \in StoredBefore("clients", objectStoreNames)
  /\ jobs \in StoredBefore("jobs", objectStoreNames)
  /\ pipeline \in StoredBefore("pipeline", objectStoreNames)
  /\ activities \in StoredBefore("activities", objectStoreNames)
  /\ settings \in (IF "settings" \in objectStoreNames
                   THEN {EmptyStore, DefaultSettings} ELSE {EmptyStore})
  /\ candCache = NoCache /\ clientCache = NoCache /\ jobCache = NoCache
  /\ board = NoBoard
  /\ txq = <<>>
  /\ op = Idle
  /\ lastOp = [op |-> "init"]
  /\ nextId = [candidates |-> MaxStored + 1, clients |-> MaxStored + 1,
               jobs |-> MaxStored + 1, pipeline |-> MaxStored + 1,
               activities |-> MaxStored + 1]
  /\ drags = 0
  /\ race = NoRace
  /\ now = 1
  /\ searchCtrl = NewSearchController
  /\ undoToasts = {}

\* (A variant that runs the step of the version on disk again.)
NeedsStepFrom(oldVersion, n) == oldVersion <= n

\* if (oldVersion < n)
NeedsStep(oldVersion, n) == oldVersion < n

\* indexedDB.open(DB_NAME, DB_VERSION): with an older database on disk the
\* upgrade transaction starts, otherwise onsuccess fires at once.
OpenDb ==
  /\ op = Idle
  /\ IF dbVersion < DB_VERSION
     THEN /\ op' = [name |-> "upgrade", oldVersion |-> dbVersion, step |-> 1,
                    ran |-> <<>>, names |-> objectStoreNames]
          /\ lastOp' = [op |-> "upgradeneeded", oldVersion |-> dbVersion]
     ELSE /\ op' = Idle
          /\ lastOp' = [op |-> "open", ok |-> TRUE, oldVersion |-> dbVersion,
                        ran |-> <<>>]
  /\ UNCHANGED <<dbVars, uiVars, now, storeVars, cacheVars, nextId, boardVars>>

\* db.createObjectStore for each name: the store starts empty.
Created(storeName, names, store) ==
  IF storeName \in names THEN EmptyStore ELSE store

\* One `if (oldVersion < n) { ... }` block of onupgradeneeded.  Creating a
\* store that exists throws ConstraintError: the upgrade transaction aborts,
\* the stores it created are gone and the open fails.
UpgradeStep ==
  /\ op.name = "upgrade" /\ op.step <= DB_VERSION
  /\ LET n == op.step
         names == StepStores(n)
     IN IF ~NeedsStep(op.oldVersion, n)
        THEN /\ op' = [op EXCEPT !.step = n + 1]
             /\ lastOp' = [op |-> "upgrade", step |-> n, ran |-> FALSE]
             /\ UNCHANGED <<storeVars, objectStoreNames>>
        ELSE IF names \cap objectStoreNames # {}
        THEN /\ op' = Idle
             /\ lastOp' = [op |-> "open", ok |-> FALSE,
                           oldVersion |-> op.oldVersion,
                           ran |-> Append(op.ran, n)]
             /\ objectStoreNames' = op.names
             /\ candidates' = Created("candidates", objectStoreNames \ op.names, candidates)
             /\ clients' = Created("clients", objectStoreNames \ op.names, clients)
             /\ jobs' = Created("jobs", objectStoreNames \ op.names, jobs)
             /\ pipeline' = Created("pipeline", objectStoreNames \ op.names, pipeline)
             /\ activities' = Created("activities", objectStoreNames \ op.names, activities)
             /\ settings' = Created("settings", objectStoreNames \ op.names, settings)
        ELSE /\ op' = [op EXCEPT !.step = n + 1, !.ran = Append(@, n)]
             /\ lastOp' = [op |-> "upgrade", step |-> n, ran |-> TRUE]
             /\ objectStoreNames' = objectStoreNames \cup names
             /\ candidates' = Created("candidates", names, candidates)
             /\ clients' = Created("clients", names, clients)
             /\ jobs' = Created("jobs", names, jobs)
             /\ pipeline' = Created("pipeline", names, pipeline)
             /\ activities' = Created("activities", names, activities)
             /\ settings' = Created("settings", names, settings)
  /\ UNCHANGED <<dbVersion, uiVars, now, cacheVars, nextId, boardVars>>

\* The upgrade transaction completes and onsuccess fires.
UpgradeDone ==
  /\ op.name = "upgrade" /\ op.step > DB_VERSION
  /\ dbVersion' = DB_VERSION
  /\ op' = Idle
  /\ lastOp' = [op |-> "open", ok |-> TRUE, oldVersion |-> op.oldVersion,
                ran |-> op.ran]
  /\ UNCHANGED <<objectStoreNames, uiVars, now, storeVars, cacheVars, nextId,
                 boardVars>>

NextUpgrade == OpenDb \/ UpgradeStep \/ UpgradeDone

SpecUpgrade == InitUpgrade /\ [][NextUpgrade]_vars

-----------------------------------------------------------------------------
(* ui.js SearchController, as the list pages use it *)

MaxSearches == 3

\* What the search box may hold.
Queries == {"a", "ab", " "}

\* (A variant that leaves the generation as it is.)
keepGeneration(generation) == generation

\* this._generation++ (cancel) and ++this._generation (search)
nextGeneration(generation) == generation + 1

\* Every running searchFn has now been followed by a later call.
Superseded(running) == {[e EXCEPT !.later = TRUE] : e \in running}

\* search(query, searchFn): clears the timer, takes the next generation; an
\* empty query reports null at once, any other query sets the timer.
search(query) ==
  /\ searchCtrl.generation < MaxSearches
  /\ LET gen == nextGeneration(searchCtrl.generation)
     IN IF Blank(query)
        THEN /\ searchCtrl' = [generation |-> gen, timeout |-> {},
                               running |-> Superseded(searchCtrl.running)]
             /\ lastOp' = [op |-> "onResults", results |-> FALSE, query |-> "",
                           gen |-> gen, later |-> FALSE]
        ELSE /\ searchCtrl' = [generation |-> gen,
                               timeout |-> {[gen |-> gen, query |-> query]},
                               running |-> Superseded(searchCtrl.running)]
             /\ lastOp' = [op |-> "search", query |-> query, gen |-> gen]
  /\ UNCHANGED <<dbVars, undoToasts, now, storeVars, cacheVars, op, nextId, boardVars>>

\* cancel(): clears the timer and moves the generation on.
cancel ==
  /\ searchCtrl.generation < MaxSearches
  /\ searchCtrl' = [generation |-> nextGeneration(searchCtrl.generation),
                    timeout |-> {},
                    running |-> Superseded(searchCtrl.running)]
  /\ lastOp' = [op |-> "cancel"]
  /\ UNCHANGED <<dbVars, undoToasts, now, storeVars, cacheVars, op, nextId, boardVars>>

\* The timer fires: searchFn(query) starts and is awaited.
TimeoutFires ==
  /\ \E t \in searchCtrl.timeout :
       searchCtrl' = [searchCtrl EXCEPT
                        !.timeout = {},
                        !.running = @ \cup {[gen |-> t.gen, query |-> t.query,
                                             later |-> FALSE]}]
  /\ lastOp' = [op |-> "searchFn"]
  /\ UNCHANGED <<dbVars, undoToasts, now, storeVars, cacheVars, op, nextId, boardVars>>

\* searchFn resolves: if (gen === this._generation) this._onResults(...).
SearchCompletes ==
  /\ \E e \in searchCtrl.running :
       /\ searchCtrl' = [searchCtrl EXCEPT !.running = @ \ {e}]
       /\ lastOp' = [op |-> IF e.gen = searchCtrl.generation
                            THEN "onResults" ELSE "discarded",
                     results |-> TRUE, query |-> e.query, gen |-> e.gen,
                     later |-> e.later]
  /\ UNCHANGED <<dbVars, undoToasts, now, storeVars, cacheVars, op, nextId, boardVars>>

NextSearch ==
  \/ \E query \in Queries : search(query)
  \/ cancel
  \/ TimeoutFires
  \/ SearchCompletes

SpecSearch == InitData /\ [][NextSearch]_vars

-----------------------------------------------------------------------------
(* db.js certification status helpers and the views that classify with them. *)
(* Times are hours; a date without a time of day is a midnight.               *)

HoursPerDay == 24

\* The instants at which a certification list is rendered.
CertNows == {48, 58}

\* expirationDate of a certification: null (NoValue) or a midnight.
ExpirationDates == {NoValue, 0, 24, 48, 72, 96, 1488, 1512}

\* The certifications a candidate may carry (dateObtained is NoValue when
\* it is not filled in).
Certs ==
  {[expirationDate |-> e, dateObtained |-> d] :
     e \in ExpirationDates, d \in {NoValue, 0}}

\* What the settings form may save.
AlertDays == {1, 2, 60}

\* Math.ceil(ms / 86400000)
CeilDays(hours) == -((-hours) \div HoursPerDay)

getCertStatus(cert, t) ==
  IF cert.expirationDate = NoValue THEN "active"
  ELSE IF cert.dateObtained = NoValue THEN "pending"
  ELSE IF cert.expirationDate < t THEN "expired"
  ELSE "active"

getCertDaysRemaining(cert, t) ==
  IF cert.expirationDate = NoValue THEN NoValue
  ELSE CeilDays(cert.expirationDate - t)

getCertUrgency(cert, alertDays, t) ==
  IF cert.expirationDate = NoValue THEN "none"
  ELSE LET daysRemaining == CeilDays(cert.expirationDate - t)
       IN IF daysRemaining < 0 THEN "expired"
          ELSE IF daysRemaining <= alertDays THEN "expiring-soon"
          ELSE "none"

\* (await db.getSetting('certAlertDays')) || 60
getAlertDays ==
  IF "certAlertDays" \in DOMAIN settings /\ settings["certAlertDays"] # 0
  THEN settings["certAlertDays"] ELSE 60

\* renderCertList: the status shown for one certification of the detail page.
renderCertList(cert) ==
  /\ LET status == getCertStatus(cert, now)
         urgency == getCertUrgency(cert, getAlertDays, now)
         days == getCertDaysRemaining(cert, now)
     IN lastOp' = [op |-> "certList", cert |-> cert, alertDays |-> getAlertDays,
                   days |-> days,
                   status |-> IF urgency = "expired" THEN "expired"
                              ELSE IF urgency = "expiring-soon" THEN "expiring-soon"
                              ELSE IF status = "pending" THEN "pending"
                              ELSE "active"]
  /\ UNCHANGED <<dbVars, uiVars, now, storeVars, cacheVars, op, nextId, boardVars>>

\* renderCertBadges: the badge of one certification in the candidate list
\* (getCertUrgency with its default alertDays).
renderCertBadges(cert) ==
  /\ LET urgency == getCertUrgency(cert, 60, now)
     IN lastOp' = [op |-> "certBadge", cert |-> cert,
                   status |-> IF urgency = "expired" THEN "expired"
                              ELSE IF urgency = "expiring-soon" THEN "expiring-soon"
                              ELSE "active"]
  /\ UNCHANGED <<dbVars, uiVars, now, storeVars, cacheVars, op, nextId, boardVars>>

\* The settings form is submitted: if (days > 0) setSetting('certAlertDays', days).
SaveAlertDays(days) ==
  /\ settings' = IF days > 0 THEN Put(settings, "certAlertDays", days) ELSE settings
  /\ lastOp' = [op |-> "settings", saved |-> days > 0]
  /\ UNCHANGED <<dbVars, uiVars, now, candidates, clients, jobs, pipeline, activities,
                 cacheVars, op, nextId, boardVars>>

InitCert ==
  /\ candidates = EmptyStore /\ clients = EmptyStore /\ jobs = EmptyStore
  /\ pipeline = EmptyStore /\ activities = EmptyStore
  /\ settings = DefaultSettings
  /\ candCache = NoCache /\ clientCache = NoCache /\ jobCache = NoCache
  /\ board = NoBoard
  /\ txq = <<>>
  /\ op = Idle
  /\ lastOp = [op |-> "init"]
  /\ nextId = [candidates |-> 1, clients |-> 1, jobs |-> 1,
               pipeline |-> 1, activities |-> 1]
  /\ drags = 0
  /\ race = NoRace
  /\ now \in CertNows
  /\ dbVersion = DB_VERSION /\ objectStoreNames = StoresAt(DB_VERSION)
  /\ searchCtrl = NewSearchController
  /\ undoToasts = {}

NextCert ==
  \/ \E cert \in Certs : renderCertList(cert)
  \/ \E cert \in Certs : renderCertBadges(cert)
  \/ \E days \in AlertDays \cup {0} : SaveAlertDays(days)

SpecCert == InitCert /\ [][NextCert]_vars

-----------------------------------------------------------------------------
(* The Kanban board: NCand candidates and one job are stored, no candidate   *)
(* is in the pipeline yet.                                                   *)

Init ==
  /\ candidates = [c \in 1..NCand |-> Candidate(0)]
  /\ clients = EmptyStore
  /\ jobs = [j \in {1} |-> Job(0, StagesA)]
  /\ pipeline = EmptyStore
  /\ activities = EmptyStore
  /\ settings = DefaultSettings
  /\ candCache = NoCache /\ clientCache = NoCache /\ jobCache = NoCache
  /\ board = NoBoard
  /\ txq = <<>>
  /\ op = Idle
  /\ lastOp = [op |-> "init"]
  /\ nextId = [candidates |-> NCand + 1, clients |-> 1, jobs |-> 2,
               pipeline |-> 1, activities |-> 1]
  /\ drags = 0
  /\ race = NoRace
  /\ now = 1
  /\ dbVersion = DB_VERSION /\ objectStoreNames = StoresAt(DB_VERSION)
  /\ searchCtrl = NewSearchController
  /\ undoToasts = {}

Next ==
  \/ \E c \in 1..NCand, j \in {1} : AddToPipeline(c, j)
  \/ \E j \in {1} : OpenPipeline(j)
  \/ \E a, b \in 1..2, i, p \in 1..(MaxEntries + 1) : handleDragEnd(a, i, b, p)
  \/ \E k \in 1..(MaxQueue + 1) : BatchRead(k)
  \/ BatchWrite
  \/ \E a \in 1..2, i \in 1..(MaxEntries + 1) : RemoveClick(a, i)
  \/ removePipelineEntry
  \/ \E k \in 1..(MaxQueue + 1) : Rerender(k)
  \/ \E c \in 1..NCand : DeleteCandidate(c)

Spec == Init /\ [][Next]_vars

\* The same board when the job's stage list is also edited.
NextDrift ==
  \/ Next
  \/ \E j \in {1}, stages \in StageLists : EditJobStages(j, stages)

SpecDrift == Init /\ [][NextDrift]_vars

-----------------------------------------------------------------------------
(* Reading the store as the claims do *)

\* The ids stored in column (jobId, stage).
StoredColumn(store, jobId, stage) ==
  {e \in DOMAIN store : store[e].jobId = jobId /\ store[e].stage = stage}

\* The positions of a stored column are exactly 0..n-1.
Contiguous(store, jobId, stage) ==
  LET col == StoredColumn(store, jobId, stage)
      n == Cardinality(col)
  IN /\ {store[e].position : e \in col} = 0..(n - 1)
     /\ \A e1, e2 \in col : store[e1].position = store[e2].position => e1 = e2

ReorderDone == lastOp.op = "reorder" /\ lastOp.ok

\* s restricted to the elements of S, order kept.
Restrict(s, S) == LET In(x) == x \in S IN SelectSeq(s, In)

\* C1 (as claimed): after a completed reorder the stored positions of the
\* destination column and of the source column are exactly 0..n-1.
C1_AffectedColumnsContiguous ==
  ReorderDone =>
    \A s \in {lastOp.meta.to, lastOp.meta.from} :
      Contiguous(pipeline, lastOp.meta.job, s)

\* C2 (as claimed): after a completed move of E to column B at index i, the
\* stored column B read in position order has E at index i and the other
\* entries in their pre-move relative order.
C2_MovedEntryAtIndex ==
  ReorderDone =>
    LET m == lastOp.meta
        col == SortByPosition(pipeline, StoredColumn(pipeline, m.job, m.to))
        others == Range(col) \ {m.moved}
    IN /\ m.index <= Len(col)
       /\ col[m.index] = m.moved
       /\ Restrict(col, others \cap Range(m.pre)) = Restrict(m.pre, others)

\* The step in which the write transaction of a reorder completes.
BatchWriteStep == txq # <<>> /\ txq[1].kind = "write" /\ txq' = Tail(txq)

\* C3: the write transaction of a reorder stores every entry of the batch with
\* its new position, stage and history and changes nothing else, or, when it
\* fails, leaves the whole store as it was; no step stores part of a batch.
C3_BatchAllOrNothing ==
  [][BatchWriteStep =>
       LET entries == txq[1].entries
       IN IF lastOp'.ok
          THEN /\ \A id \in DOMAIN entries :
                    id \in DOMAIN pipeline' /\ pipeline'[id] = entries[id]
               /\ \A id \in DOMAIN pipeline' \ DOMAIN entries :
                    id \in DOMAIN pipeline /\ pipeline'[id] = pipeline[id]
          ELSE pipeline' = pipeline]_vars

\* A reorder of two or more cards has been written.
C3_Witness == ReorderDone /\ Len(lastOp.meta.cards) >= 2

\* C4 (as claimed): when two reorders that were in flight together have both
\* completed, the pipeline is what the two reorders leave when run one after
\* the other, in one of the two orders.
C4_ReordersSerializable ==
  (~ReorderPending /\ race.clean /\ Len(race.batches) = 2) =>
    LET b1 == race.batches[1]
        b2 == race.batches[2]
    IN pipeline \in {ApplyBatch(ApplyBatch(race.base, b1), b2),
                     ApplyBatch(ApplyBatch(race.base, b2), b1)}

\* No two pipeline entries have the same (candidateId, jobId).
PairUnique ==
  \A e1, e2 \in DOMAIN pipeline :
    (pipeline[e1].candidateId = pipeline[e2].candidateId
       /\ pipeline[e1].jobId = pipeline[e2].jobId) => e1 = e2

\* C5: addToPipeline for a pair that already has an entry fails and leaves the
\* pipeline collection as it was, and no state holds two entries of one pair.
C5_DuplicatePairRejected ==
  /\ []PairUnique
  /\ [][(lastOp'.op = "addToPipeline"
          /\ \E e \in DOMAIN pipeline :
               /\ pipeline[e].candidateId = lastOp'.candidateId
               /\ pipeline[e].jobId = lastOp'.jobId)
         => (~lastOp'.ok /\ pipeline' = pipeline)]_vars

\* A duplicate add has been refused while the first entry is stored.
C5_Witness ==
  /\ lastOp.op = "addToPipeline" /\ ~lastOp.ok
  /\ \E e \in DOMAIN pipeline :
       pipeline[e].candidateId = lastOp.candidateId /\ pipeline[e].jobId = lastOp.jobId


\* C6: a job deletion that has completed leaves no pipeline entry with the
\* job's id and no job record, and at the step that removes the job record the
\* pipeline rows of the job are already gone.
C6_JobDeleteCascades ==
  /\ [](lastOp.op = "deleteJob" /\ lastOp.ok
          => /\ getPipelineByJob(pipeline, lastOp.id) = <<>>
             /\ lastOp.id \notin DOMAIN jobs)
  /\ [][\A j \in DOMAIN jobs :
          (j \notin DOMAIN jobs' /\ lastOp'.op = "deleteJob")
            => getPipelineByJob(pipeline, j) = <<>>]_vars

\* A job with two pipeline entries has been deleted.
C6_Witness == lastOp.op = "deleteJob" /\ lastOp.ok /\ lastOp.removed = 2

\* C7: a candidate deletion that has completed leaves no pipeline entry and no
\* activity with the candidate's id.
C7_CandidateDeleteCascades ==
  lastOp.op = "deleteCandidate" /\ lastOp.ok
    => /\ getPipelineByCandidate(pipeline, lastOp.id) = <<>>
       /\ getActivitiesByCandidate(activities, lastOp.id) = <<>>

\* C8: a client deletion that has completed leaves no job with the client's id
\* and the same set of job ids as before it, and at the step that removes the
\* client record its jobs are already unlinked and no job is touched.
C8_ClientDeleteUnlinks ==
  /\ [](lastOp.op = "deleteClient" /\ lastOp.ok
          => /\ lastOp.id \notin DOMAIN clients
             /\ getJobsByClient(jobs, lastOp.id) = <<>>
             /\ DOMAIN jobs = lastOp.jobIds)
  /\ [][\A c \in DOMAIN clients :
          (c \notin DOMAIN clients' /\ lastOp'.op = "deleteClient")
            => getJobsByClient(jobs, c) = <<>> /\ jobs' = jobs]_vars

\* A client with two jobs has been deleted.
C8_Witness == lastOp.op = "deleteClient" /\ lastOp.ok /\ lastOp.linked = 2

\* C9: what a list page shows when it reads its cache is the collection as it
\* is stored.
C9_ListCacheNeverStale ==
  /\ lastOp.op = "renderJobList" => lastOp.shown = jobs
  /\ lastOp.op = "renderClientList" => lastOp.shown = clients

\* A record that the step leaves as it was.
Kept(store, after) ==
  \A k \in DOMAIN store : k \in DOMAIN after /\ after[k] = store[k]

\* C10: a restore leaves every record that was stored, in the five collections
\* by id and in settings by key, as it was, and when it goes through it counts
\* as skipped the people of the backup whose id was stored.
C10_RestoreAdditive ==
  [][lastOp'.op = "restore"
       => /\ Kept(candidates, candidates') /\ Kept(clients, clients')
          /\ Kept(jobs, jobs') /\ Kept(pipeline, pipeline')
          /\ Kept(activities, activities') /\ Kept(settings, settings')
          /\ lastOp'.ok =>
               lastOp'.skipped = Skipped(candidates, lastOp'.file.candidates)]_vars

\* C11: a restore from a file whose version is absent, unrecognised or newer
\* than DB_VERSION is rejected and writes nothing to any collection.
C11_UnknownVersionRejected ==
  [][(lastOp'.op = "restore" /\ lastOp'.file.version \notin 1..DB_VERSION)
       => ~lastOp'.ok /\ UNCHANGED storeVars]_vars

\* The step of executeImport, from the preview to the tally.
ImportStep == op.name = "import" /\ lastOp'.op = "import"

\* C12: for the rows of an import that matched a stored candidate, `update`
\* puts the row's values into that record under the same id, `skip` and `new`
\* leave the record as it was, and every `new` row adds one record (these are
\* the only new records when every row was matched).
C12_DuplicateActionDecides ==
  [][ImportStep =>
       LET rows == op.rows
           Matched == {i \in DOMAIN rows : rows[i].existingId # 0}
           News == {i \in Matched : rows[i].action = "new"}
           Added == DOMAIN candidates' \ DOMAIN candidates
           Updates(e) == {i \in Matched : rows[i].existingId = e
                                           /\ rows[i].action = "update"}
       IN /\ Cardinality(Added) >= Cardinality(News)
          /\ Matched = DOMAIN rows => Cardinality(Added) = Cardinality(News)
          /\ \A i \in Matched :
               LET e == rows[i].existingId
               IN /\ e \in DOMAIN candidates'
                  /\ Updates(e) = {} => candidates'[e] = candidates[e]
                  /\ (i \in Updates(e) /\ \A k \in Updates(e) : k <= i)
                       => /\ candidates'[e].firstName = rows[i].row.firstName
                          /\ candidates'[e].externalId = rows[i].row.externalId]_vars

\* C13: an import stores every row that validates, counts the others as
\* errors, and its tally covers every row.
C13_ImportIsolatesFailures ==
  [][ImportStep =>
       LET acc == CollectBatch(op.rows, [mem |-> candidates, toCreate |-> <<>>,
                                          toUpdate |-> <<>>, skipped |-> 0])
           valid == {i \in DOMAIN acc.toCreate : validateCandidate(acc.toCreate[i])}
       IN /\ Cardinality(DOMAIN candidates' \ DOMAIN candidates) = Cardinality(valid)
          /\ lastOp'.errors = Len(acc.toCreate) - Cardinality(valid)
          /\ lastOp'.created + lastOp'.updated + lastOp'.skipped + lastOp'.errors
               = Len(op.rows)]_vars

\* The records of a backup array that are valid and whose id is not stored.
Missing(storeName, store, items) ==
  {items[i].id : i \in {n \in DOMAIN items :
                          /\ items[n].id # 0
                          /\ items[n].id \notin DOMAIN store
                          /\ IF storeName = "candidates"
                             THEN validateCandidate(items[n].rec)
                             ELSE ValidRecord(storeName, items[n].rec)}}

\* C14: a restore from a file of an accepted version writes every valid record
\* of the backup whose id was not stored, whatever other records are invalid.
C14_RestoreSkipsInvalidOnly ==
  [][(lastOp'.op = "restore" /\ lastOp'.file.version <= DB_VERSION)
       => LET f == lastOp'.file
          IN /\ Missing("candidates", candidates, f.candidates) \subseteq DOMAIN candidates'
             /\ Missing("clients", clients, f.clients) \subseteq DOMAIN clients'
             /\ Missing("jobs", jobs, f.jobs) \subseteq DOMAIN jobs'
             /\ Missing("pipeline", pipeline, f.pipeline) \subseteq DOMAIN pipeline'
             /\ Missing("activities", activities, f.activities)
                  \subseteq DOMAIN activities']_vars

\* The collection an operation of db.js works on.
StoreOf(storeName) ==
  CASE storeName = "candidates" -> candidates
    [] storeName = "clients" -> clients
    [] storeName = "jobs" -> jobs
    [] storeName = "pipeline" -> pipeline
    [] storeName = "activities" -> activities

\* The same collection after the step.
StoreAfter(storeName) ==
  CASE storeName = "candidates" -> candidates'
    [] storeName = "clients" -> clients'
    [] storeName = "jobs" -> jobs'
    [] storeName = "pipeline" -> pipeline'
    [] storeName = "activities" -> activities'

\* The record that an add builds from its argument.
Built(storeName, data) ==
  CASE storeName = "candidates" -> createCandidate(data)
    [] storeName = "clients" -> createClient(data)
    [] storeName = "jobs" -> createJob(data)
    [] storeName = "pipeline" ->
         createPipelineEntry(OrElse(data, "candidateId", 0, 0),
                             OrElse(data, "jobId", 0, 0),
                             OrElse(data, "stage", "", ""))
    [] storeName = "activities" -> createActivity(data)

\* An array field holds a value that is not a list.
NonList(x) == x \in {"empty", "nonlist"}

\* The entity invariants: a required field is empty, the activity type is not
\* an allowed one, or an array field holds something that is not a list.
Violates(storeName, rec) ==
  CASE storeName = "candidates" ->
         \/ rec.firstName = "" \/ rec.lastName = ""
         \/ NonList(rec.certifications) \/ NonList(rec.skills)
    [] storeName = "clients" -> rec.companyName = "" \/ NonList(rec.contacts)
    [] storeName = "jobs" ->
         \/ rec.title = ""
         \/ NonList(rec.requiredCerts) \/ NonList(rec.preferredCerts)
    [] storeName = "pipeline" ->
         rec.candidateId = 0 \/ rec.jobId = 0 \/ rec.stage = ""
    [] storeName = "activities" ->
         rec.type \notin {"email", "call", "interview", "note", "submission"}
           \/ rec.candidateId = 0

\* C15: an add or update whose record (for an add, the record built from the
\* argument) violates its entity invariant fails and leaves every store as
\* it was.
C15_InvalidRecordRejected ==
  [][(lastOp'.op \in {"add", "update"}
        /\ Violates(lastOp'.store,
                    IF lastOp'.op = "add"
                    THEN Built(lastOp'.store, lastOp'.input)
                    ELSE lastOp'.input))
       => ~lastOp'.ok /\ UNCHANGED storeVars]_vars

C17_UpdatedAtAdvancesEverywhere ==
  [][(lastOp'.op = "update" /\ lastOp'.ok)
       => LET old == StoreOf(lastOp'.store)[lastOp'.id]
              new == StoreAfter(lastOp'.store)[lastOp'.id]
          IN "updatedAt" \in DOMAIN new /\ new.updatedAt >= old.updatedAt]_vars

\* C17: an update of a candidate, client, job or pipeline entry that succeeded
\* sets updatedAt to the clock, which is not smaller than the one the record
\* had; an update of an activity stores the argument and sets no updatedAt.
C17_UpdatedAtAdvances ==
  [][(lastOp'.op = "update" /\ lastOp'.ok)
       => LET old == StoreOf(lastOp'.store)[lastOp'.id]
              new == StoreAfter(lastOp'.store)[lastOp'.id]
          IN IF lastOp'.store = "activities"
             THEN new = lastOp'.input /\ "updatedAt" \notin DOMAIN new
             ELSE new.updatedAt = now /\ new.updatedAt >= old.updatedAt]_vars

\* A candidate has been updated after the clock moved on from its creation.
C17_Witness ==
  /\ lastOp.op = "update" /\ lastOp.ok /\ lastOp.store = "candidates"
  /\ lastOp.id \in DOMAIN candidates
  /\ candidates[lastOp.id].updatedAt > candidates[lastOp.id].createdAt

\* The collection of the given name (settings included) before a step.
Collection(storeName) ==
  IF storeName = "settings" THEN settings ELSE StoreOf(storeName)

\* The same after the step.
CollectionAfter(storeName) ==
  IF storeName = "settings" THEN settings' ELSE StoreAfter(storeName)

\* C18: an open of a database at version v (0 <= v <= 3) succeeds at version
\* 3 having run exactly the upgrade steps v+1..3 in increasing order, and no
\* step of it removes a collection or changes what a collection that existed
\* holds.
C18_UpgradeRunsLaterSteps ==
  [][/\ lastOp'.op = "open"
          => /\ lastOp'.ok /\ dbVersion' = DB_VERSION
             /\ lastOp'.ran = [i \in 1..(DB_VERSION - lastOp'.oldVersion) |->
                                 lastOp'.oldVersion + i]
     /\ objectStoreNames \subseteq objectStoreNames'
     /\ \A storeName \in objectStoreNames :
          CollectionAfter(storeName) = Collection(storeName)]_vars

\* A database at version 1 that holds a candidate has been opened: steps 2
\* and 3 ran and the candidate is still there.
C18_Witness ==
  /\ lastOp.op = "open" /\ lastOp.oldVersion = 1 /\ lastOp.ran = <<2, 3>>
  /\ candidates # EmptyStore
  /\ objectStoreNames = StoresAt(DB_VERSION)

\* C19: results of a query reach onResults only if no search() or cancel()
\* call was made after the call that started the query and before its
\* searchFn completed, the query's generation being the controller's at
\* that moment; the generation never decreases.
C19_StaleResultsDiscarded ==
  [][/\ (lastOp'.op = "onResults" /\ lastOp'.results)
          => ~lastOp'.later /\ lastOp'.gen = searchCtrl.generation
     /\ searchCtrl'.generation >= searchCtrl.generation]_vars

\* Results of a later query have been delivered while the searchFn of a
\* superseded query is still running.
C19_Witness ==
  /\ lastOp.op = "onResults" /\ lastOp.results /\ lastOp.gen > 1
  /\ \E e \in searchCtrl.running : e.later /\ e.gen < lastOp.gen

\* C20: the detail page classifies a certification whose expirationDate lies
\* in the past as expired, one whose expirationDate lies in the future by at
\* most the alert threshold in days as expiring-soon, and one with no
\* expirationDate as active, whatever the threshold.
C20_CertClassification ==
  lastOp.op = "certList" =>
    LET e == lastOp.cert.expirationDate
    IN /\ (e # NoValue /\ e < now) => lastOp.status = "expired"
       /\ (e # NoValue /\ e > now /\ e - now <= lastOp.alertDays * HoursPerDay)
            => lastOp.status = "expiring-soon"
       /\ e = NoValue => lastOp.status = "active"

\* C21: an add to a job's pipeline that succeeds stores, under a new id, an
\* entry whose stage is the job's first stage, whose position is 0 and whose
\* history is one element carrying that stage.
C21_NewEntryAtFirstStage ==
  [][(lastOp'.op = "addToPipeline" /\ lastOp'.ok)
       => LET id == nextId.pipeline
              first == Head(jobs[lastOp'.jobId].stages)
          IN /\ id \notin DOMAIN pipeline /\ id \in DOMAIN pipeline'
             /\ pipeline'[id].candidateId = lastOp'.candidateId
             /\ pipeline'[id].jobId = lastOp'.jobId
             /\ pipeline'[id].stage = first
             /\ pipeline'[id].position = 0
             /\ Len(pipeline'[id].history) = 1
             /\ pipeline'[id].history[1].stage = first]_vars

\* A candidate has been added to a job whose first stage is not "Sourced".
C21_Witness ==
  /\ lastOp.op = "addToPipeline" /\ lastOp.ok
  /\ Head(jobs[lastOp.jobId].stages) = "Screen"
  /\ \E e \in DOMAIN pipeline :
       /\ pipeline[e].candidateId = lastOp.candidateId
       /\ pipeline[e].stage = "Screen"

\* The step in which the write of a reorder completes and commits.
MoveWritten == BatchWriteStep /\ lastOp'.ok

\* C22 (as claimed): a completed move of E to stage B leaves E stored with
\* stage B and with the history it had in the store plus one element of stage
\* B, so that the stage is that of the last history element, and every other
\* entry of the batch differs from what was stored in its position only.
C22_MoveAppendsOneElement ==
  [][MoveWritten =>
       LET m == lastOp'.meta
           E == m.moved
       IN /\ E \in DOMAIN pipeline /\ E \in DOMAIN pipeline'
          /\ pipeline'[E].stage = m.to
          /\ Len(pipeline'[E].history) = Len(pipeline[E].history) + 1
          /\ SubSeq(pipeline'[E].history, 1, Len(pipeline[E].history))
               = pipeline[E].history
          /\ pipeline'[E].history[Len(pipeline'[E].history)].stage = m.to
          /\ \A id \in DOMAIN txq[1].entries \ {E} :
               /\ id \in DOMAIN pipeline /\ id \in DOMAIN pipeline'
               /\ pipeline'[id] = [pipeline[id] EXCEPT
                                     !.position = pipeline'[id].position]]_vars

\* C23: in every state, the file that exportAll writes, restored into a
\* database with empty stores, is accepted and leaves six collections equal
\* to the stored ones.
C23_ExportRestoreRoundTrip ==
  LET r == RestoreOutcome(EmptyStores, exportAll(Stores))
  IN /\ r.stage = "done"
     /\ r.candidates = candidates /\ r.clients = clients /\ r.jobs = jobs
     /\ r.pipeline = pipeline /\ r.activities = activities
     /\ r.settings = settings

\* Five collections and the settings hold something, part of it from a
\* restored backup.
C23_Witness ==
  /\ candidates # EmptyStore /\ clients # EmptyStore /\ jobs # EmptyStore
  /\ pipeline # EmptyStore /\ activities # EmptyStore
  /\ "certAlertDays" \in DOMAIN settings /\ settings["certAlertDays"] = 30
  /\ lastOp.op = "restore"

\* C24 (as claimed): an operation on several collections is applied in one
\* step: the step of a job deletion that removes pipeline entries also
\* removes the job, and the step that removes a candidate also removes the
\* candidate's pipeline entries and activities.
C24_MultiStoreAtomic ==
  [][/\ (op.name = "deleteJob" /\ pipeline' # pipeline)
          => op.id \notin DOMAIN jobs'
     /\ \A c \in DOMAIN candidates \ DOMAIN candidates' :
          lastOp'.op = "deleteCandidate"
            => /\ getPipelineByCandidate(pipeline', c) = <<>>
               /\ getActivitiesByCandidate(activities', c) = <<>>]_vars

\* The stage of a stored entry is not one of its job's stages.
Drifted(e) ==
  /\ pipeline[e].jobId \in DOMAIN jobs
  /\ pipeline[e].stage \notin Range(jobs[pipeline[e].jobId].stages)

\* C25: when the board is rendered, an entry whose stored stage is not in the
\* job's stage list and that has a card is shown in the first column; and a
\* step changes the stored stage of such an entry only when it is the write
\* of a reorder in which that entry is the dragged one.
C25_DriftedStageKept ==
  [][/\ lastOp'.op = "renderPipeline" /\ board' # NoBoard
          => \A e \in DOMAIN pipeline :
               (/\ pipeline[e].jobId = board'.job /\ Drifted(e)
                /\ pipeline[e].candidateId \in DOMAIN candidates)
                 => e \in Range(board'.cols[1])
     /\ \A e \in DOMAIN pipeline \cap DOMAIN pipeline' :
          (Drifted(e) /\ pipeline'[e].stage # pipeline[e].stage)
            => MoveWritten /\ lastOp'.meta.moved = e]_vars

\* Another card of the first column has been reordered while an entry whose
\* stage left the job's list is stored in that column.
C25_Witness ==
  /\ ReorderDone
  /\ \E e \in DOMAIN pipeline :
       /\ Drifted(e) /\ e # lastOp.meta.moved
       /\ \E i \in DOMAIN lastOp.meta.cards : lastOp.meta.cards[i].id = e

\* C27 (as claimed): no two stored entries of the same job and the same stage
\* have the same position.
C27_PositionsDistinct ==
  \A e1, e2 \in DOMAIN pipeline :
    (/\ pipeline[e1].jobId = pipeline[e2].jobId
     /\ pipeline[e1].stage = pipeline[e2].stage
     /\ pipeline[e1].position = pipeline[e2].position) => e1 = e2

\* s is an initial part of t.
IsPrefix(s, t) == Len(s) <= Len(t) /\ SubSeq(t, 1, Len(s)) = s

\* C28 (as claimed): in every step, the history stored for an entry before
\* the step is an initial part of the history stored for it after the step.
C28_HistoryAppendOnly ==
  [][\A e \in DOMAIN pipeline \cap DOMAIN pipeline' :
       IsPrefix(pipeline[e].history, pipeline'[e].history)]_vars

\* C29 (as claimed): whenever no operation is in flight, every stored entry
\* joins a stored candidate and a stored job.
C29_NoOrphans ==
  (op = Idle /\ txq = <<>>) =>
    \A e \in DOMAIN pipeline :
      /\ pipeline[e].candidateId \in DOMAIN candidates
      /\ pipeline[e].jobId \in DOMAIN jobs

\* C30 (as claimed): every record that the write transaction of a reorder
\* stores is in the store when it is written.
C30_ReorderWritesStoredOnly ==
  [][MoveWritten => \A id \in DOMAIN txq[1].entries : id \in DOMAIN pipeline]_vars

\* The snapshot holds what the record held; certifications that the record
\* lacks are an empty list in the snapshot.
SameButCerts(snap, rec) ==
  /\ DOMAIN snap = DOMAIN rec
  /\ \A f \in DOMAIN rec \ {"certifications"} : snap[f] = rec[f]
  /\ snap.certifications =
       IF rec.certifications \in {"falsy", "empty"} THEN "list"
       ELSE rec.certifications

=============================================================================
